---------------------------- MODULE Spec2Model ----------------------------
(***************************************************************************)
(* Model of src/src/primal_hunter/scripts/process_epub_styles.py: the CSS  *)
(* rule parser and grouper (parse_css_sources, _merge_sheet,               *)
(* collapse_style_groups), and the cascade resolver and formatting emitter *)
(* (apply_styles_to_soup).                                                 *)
(*                                                                         *)
(* Strings.  A Python str is a finite sequence of atoms.  An atom is a     *)
(* separator character (";", ":", ","), a whitespace character (" ",       *)
(* "\n"), the token "!important", or a word (a maximal run of other        *)
(* characters, such as "font-weight" or "700").  Splitting, stripping,     *)
(* lower-casing, joining and comparing are computed on these sequences the *)
(* way the Python string methods compute them on characters.  A selector   *)
(* text, which the program only uses as an opaque key, is one atom.        *)
(***************************************************************************)
EXTENDS Integers, Sequences, FiniteSets, TLC

(***************************************************************************)
(* Bounds of the model.                                                    *)
(***************************************************************************)
MaxNodes == 4
MaxFiles == 2
MaxChapters == 2
MaxValueLen == 3
MaxWrites == 3
MaxRaises == 2

VARIABLES
  nodes,                \* soup: the document tree, nodes in document order
  orig,                 \* the document as it was when the current call began
  selector_styles,      \* the SelectorStyles argument, in iteration order
  book_number,          \* argument
  chapter_index,        \* argument
  pc,                   \* the loop of apply_styles_to_soup being run
  pos,                  \* the position of that loop
  element_styles,       \* selector-derived style of each element
  tag_cascaded_styles,  \* cascaded style of each element already visited
  computed_style,       \* computed_style (line 553) of each element visited
  cascaded,             \* cascaded (line 629) of each text node labelled
  formatted_entries,    \* the entries collected so far
  run                   \* 1: the first call; 2: a second call on its output

VARIABLES
  css_files,                \* process_book: the CSS files of the book
  chapters,                 \* the inline <style> blocks of each HTML file
  css_pc,                   \* the step of process_book being run
  css_pos,                  \* the position of its loop
  selector_map,             \* parse_css_sources: selector_map
  grouped_styles,           \* parse_css_sources: grouped_styles
  base_selector_styles,     \* process_book, line 694
  base_style_groups,        \* process_book, line 694
  summary_selector_styles,  \* process_book, line 699
  summary_style_groups,     \* process_book, line 700
  inline_groups,            \* the groups of the last chapter's inline blocks
  combined_styles,          \* the selector styles applied to the last chapter
  css_summary,              \* the CssSummary returned
  log_warnings,             \* the number of log.warning calls so far
  pandoc_fails,             \* the chapters whose conversion raises PandocError
  markdown_written          \* the chapters whose Markdown file was written

VARIABLES
  np_name,                  \* _normalize_property: the name argument
  np_value,                 \* _normalize_property: the value argument
  np_pc,                    \* "call", "returned" or "raised"
  np_result                 \* the dict returned

domVars ==
  << nodes, orig, selector_styles, book_number, chapter_index, pc, pos,
     element_styles, tag_cascaded_styles, computed_style, cascaded,
     formatted_entries, run >>

cssVars ==
  << css_files, chapters, css_pc, css_pos, selector_map, grouped_styles,
     base_selector_styles, base_style_groups, summary_selector_styles,
     summary_style_groups, inline_groups, combined_styles, css_summary,
     log_warnings, pandoc_fails, markdown_written >>

VARIABLES
  w_phase,                  \* _JsonArrayWriter: "new", "entered" or "exited"
  w_file,                   \* whether self._file is a file (TRUE) or None
  w_count,                  \* self._count
  w_text,                   \* the contents of the file at self._path
  w_items,                  \* the items given to write between __enter__ and __exit__
  w_outside,                \* the number of write calls made outside of them
  w_raised,                 \* the number of RuntimeErrors write raised
  w_exc                     \* whether __exit__ ran because of an exception

normVars == << np_name, np_value, np_pc, np_result >>

writerVars ==
  << w_phase, w_file, w_count, w_text, w_items, w_outside, w_raised, w_exc >>

vars == << domVars, cssVars, normVars, writerVars >>

(***************************************************************************)
(* String layer.                                                           *)
(***************************************************************************)

\* Every atom of the model, in the order Python's str comparison gives them.
AtomOrder ==
  << "\n", " ", "!important", "#x", ",", ".b", ".title", "300", "400", "450.5", "500",
     "600", "700", "900", ":", ";", "BOLD", "Center", "FONT-STYLE", "FONT-WEIGHT", "Hello", "LEFT", "a", "b",
     "bold", "bolder", "center", "color", "div", "font-style", "font-weight",
     "hello", "italic", "left", "none", "normal", "oblique", "overline", "p",
     "p::first-line", "red", "right", "span", "text-align", "text-decoration",
     "underline", "world" >>

RankOf ==
  [a \in {AtomOrder[i] : i \in 1..Len(AtomOrder)} |->
     CHOOSE i \in 1..Len(AtomOrder) : AtomOrder[i] = a]

Rank(a) == RankOf[a]

\* str < str: lexicographic, a proper prefix first.
RECURSIVE StrLess(_, _)
StrLess(s, t) ==
  IF t = <<>> THEN FALSE
  ELSE IF s = <<>> THEN TRUE
  ELSE IF Head(s) = Head(t) THEN StrLess(Tail(s), Tail(t))
  ELSE Rank(Head(s)) < Rank(Head(t))

\* str.isspace() of one character.
IsSpace(c) == c \in {" ", "\n"}

\* str.lower() of one atom.
LowerAtom(a) ==
  CASE a = "BOLD" -> "bold"
    [] a = "Center" -> "center"
    [] a = "FONT-STYLE" -> "font-style"
    [] a = "FONT-WEIGHT" -> "font-weight"
    [] a = "Hello" -> "hello"
    [] a = "LEFT" -> "left"
    [] OTHER -> a

\* str.lower()
RECURSIVE Lower(_)
Lower(s) == IF s = <<>> THEN <<>> ELSE <<LowerAtom(Head(s))>> \o Lower(Tail(s))

RECURSIVE LStrip(_)
LStrip(s) == IF s # <<>> /\ IsSpace(Head(s)) THEN LStrip(Tail(s)) ELSE s

RECURSIVE RStrip(_)
RStrip(s) ==
  IF s # <<>> /\ IsSpace(s[Len(s)]) THEN RStrip(SubSeq(s, 1, Len(s) - 1)) ELSE s

\* str.strip()
Strip(s) == RStrip(LStrip(s))

\* `c in s` for a one-character separator c.
Contains(s, c) == \E i \in 1..Len(s) : s[i] = c

\* The first position of c in s (c occurs in s).
IndexOf(s, c) == CHOOSE i \in 1..Len(s) : s[i] = c /\ \A j \in 1..(i - 1) : s[j] # c

\* str.split(c): the pieces between the occurrences of c, empty pieces kept.
RECURSIVE Split(_, _)
Split(s, c) ==
  IF ~Contains(s, c) THEN <<s>>
  ELSE <<SubSeq(s, 1, IndexOf(s, c) - 1)>>
         \o Split(SubSeq(s, IndexOf(s, c) + 1, Len(s)), c)

\* The length of the leading run of non-whitespace of s.
RECURSIVE WordLen(_)
WordLen(s) == IF s = <<>> \/ IsSpace(Head(s)) THEN 0 ELSE 1 + WordLen(Tail(s))

\* str.split(): the maximal runs of non-whitespace.
RECURSIVE SplitWS(_)
SplitWS(s) ==
  LET t == LStrip(s) IN
  IF t = <<>> THEN <<>>
  ELSE <<SubSeq(t, 1, WordLen(t))>> \o SplitWS(SubSeq(t, WordLen(t) + 1, Len(t)))

\* sep.join(parts)
RECURSIVE Join(_, _)
Join(parts, sep) ==
  IF parts = <<>> THEN <<>>
  ELSE IF Len(parts) = 1 THEN parts[1]
  ELSE parts[1] \o sep \o Join(Tail(parts), sep)

(***************************************************************************)
(* PropertyDict: a function from property names to values, both strings.   *)
(***************************************************************************)
EmptyDict == [k \in {} |-> <<>>]

FontWeight == <<"font-weight">>
FontStyle == <<"font-style">>
TextDecoration == <<"text-decoration">>
TextAlign == <<"text-align">>

INTERESTING_PROPERTIES == {FontWeight, FontStyle, TextDecoration, TextAlign}

\* dict.get(key): the value, or the empty string for None (both are falsy).
Get(d, k) == IF k \in DOMAIN d THEN d[k] ELSE <<>>

merge_styles(base, extra) ==
  [k \in DOMAIN base \cup DOMAIN extra |->
     IF k \in DOMAIN extra THEN extra[k] ELSE base[k]]

\* One iteration of the loop of parse_inline_style over style_value.split(";").
ParsePart(styles, part) ==
  IF Strip(part) = <<>> \/ ~Contains(part, ":") THEN styles
  ELSE LET key == Lower(Strip(SubSeq(part, 1, IndexOf(part, ":") - 1)))
           val == Lower(Strip(SubSeq(part, IndexOf(part, ":") + 1, Len(part))))
       IN IF key = <<>> \/ val = <<>> THEN styles
          ELSE merge_styles(styles, [k \in {key} |-> val])

RECURSIVE ParseParts(_, _)
ParseParts(styles, parts) ==
  IF parts = <<>> THEN styles
  ELSE ParseParts(ParsePart(styles, Head(parts)), Tail(parts))

parse_inline_style(style_value) ==
  IF style_value = <<>> THEN EmptyDict
  ELSE ParseParts(EmptyDict, Split(style_value, ";"))

features_from_tag(name) ==
  IF Lower(<<name>>)[1] \in {"b", "strong"} THEN [k \in {FontWeight} |-> <<"bold">>]
  ELSE IF Lower(<<name>>)[1] \in {"i", "em"} THEN [k \in {FontStyle} |-> <<"italic">>]
  ELSE IF Lower(<<name>>)[1] = "u" THEN [k \in {TextDecoration} |-> <<"underline">>]
  ELSE EmptyDict

\* The bold values as the values the stylesheet normalizer maps to bold.
BoldValuesOfStylesheet ==
  {<<"bold">>, <<"bolder">>, <<"500">>, <<"600">>, <<"700">>, <<"800">>, <<"900">>}

\* Lines 498-499
bold_values == {<<"bold">>, <<"700">>, <<"600">>, <<"800">>, <<"900">>}
italic_values == {<<"italic">>, <<"oblique">>}

\* "underline" in s: no other atom of the model has it as a substring, and
\* no atom sequence spells it across a separator.
HasUnderline(s) == Contains(s, "underline")

normalize_tracked_properties(style) ==
  LET fw == IF Get(style, FontWeight) # <<>>
               /\ Lower(Strip(Get(style, FontWeight))) \in bold_values
            THEN [k \in {FontWeight} |-> <<"bold">>] ELSE EmptyDict
      fs == IF Get(style, FontStyle) # <<>>
               /\ Lower(Strip(Get(style, FontStyle))) \in italic_values
            THEN [k \in {FontStyle} |-> <<"italic">>] ELSE EmptyDict
      td == IF Get(style, TextDecoration) # <<>>
               /\ HasUnderline(Lower(Get(style, TextDecoration)))
            THEN [k \in {TextDecoration} |-> <<"underline">>] ELSE EmptyDict
      ta == IF Get(style, TextAlign) # <<>>
            THEN [k \in {TextAlign} |-> Strip(Get(style, TextAlign))] ELSE EmptyDict
  IN merge_styles(merge_styles(merge_styles(fw, fs), td), ta)

\* The list of labels, in the order the code appends them.
labels_from_style(style) ==
  (IF Get(style, FontWeight) # <<>>
      /\ Lower(Strip(Get(style, FontWeight))) \in bold_values
   THEN << <<"bold">> >> ELSE <<>>)
  \o (IF Get(style, FontStyle) # <<>>
         /\ Lower(Strip(Get(style, FontStyle))) \in italic_values
      THEN << <<"italic">> >> ELSE <<>>)
  \o (IF Get(style, TextDecoration) # <<>>
         /\ HasUnderline(Lower(Get(style, TextDecoration)))
      THEN << <<"underline">> >> ELSE <<>>)
  \o (IF Get(style, TextAlign) # <<>>
      THEN << <<"text-align", ":">> \o Strip(Get(style, TextAlign)) >> ELSE <<>>)

\* sorted(strs): the strings of a finite set, ascending.
RECURSIVE SortedStrs(_)
SortedStrs(S) ==
  IF S = {} THEN <<>>
  ELSE LET m == CHOOSE x \in S : \A y \in S \ {x} : StrLess(x, y)
       IN <<m>> \o SortedStrs(S \ {m})

\* The set of the elements of a sequence.
Range(s) == {s[i] : i \in 1..Len(s)}

\* [f"{prop}:{val}" for prop, val in sorted(final_style.items())]
RECURSIVE StyleParts(_, _)
StyleParts(final_style, keys) ==
  IF keys = <<>> THEN <<>>
  ELSE << Head(keys) \o <<":">> \o final_style[Head(keys)] >>
         \o StyleParts(final_style, Tail(keys))

\* ";".join(style_parts) + ";"
FormatStyle(final_style) ==
  Join(StyleParts(final_style, SortedStrs(DOMAIN final_style)), <<";">>) \o <<";">>

(***************************************************************************)
(* Property normalizer and rule parser.                                    *)
(*                                                                         *)
(* A stylesheet as cssutils hands it over is a sequence of rules           *)
(*   [type, selectorList, style]                                           *)
(* where type is "style" for a STYLE_RULE, selectorList is the sequence of *)
(* the selector texts and style the sequence of declarations [name, value].*)
(* A dict that is iterated (selector_map, grouped_styles, collapsed) is a  *)
(* sequence of entries in insertion order with unique keys.                *)
(***************************************************************************)

\* str.isdigit() and int() of a value: the numbers of the model are atoms.
IsDigit(s) == Len(s) = 1 /\ s[1] \in {"300", "400", "500", "600", "700", "900"}

IntOf(s) ==
  CASE s[1] = "300" -> 300 [] s[1] = "400" -> 400
    [] s[1] = "500" -> 500 [] s[1] = "600" -> 600
    [] s[1] = "700" -> 700 [] s[1] = "900" -> 900

\* value.strip().lower().split("!important")[0].strip()
CleanedValue(value) == Strip(Split(Lower(Strip(value)), "!important")[1])

\* cleaned_value.split()[0] raises IndexError for a value with no token.
NormalizeRaises(name, value) ==
  name = TextAlign /\ SplitWS(CleanedValue(value)) = <<>>

_normalize_property(name, value) ==
  LET cleaned_value == CleanedValue(value) IN
  IF name = FontWeight THEN
    IF IsDigit(cleaned_value) THEN
      IF IntOf(cleaned_value) > 400
      THEN [k \in {FontWeight} |-> <<"bold">>] ELSE EmptyDict
    ELSE IF cleaned_value \in {<<"bold">>, <<"bolder">>}
      THEN [k \in {FontWeight} |-> <<"bold">>] ELSE EmptyDict
  ELSE IF name = FontStyle THEN
    IF Contains(cleaned_value, "italic") \/ Contains(cleaned_value, "oblique")
    THEN [k \in {FontStyle} |-> <<"italic">>] ELSE EmptyDict
  ELSE IF name = TextDecoration THEN
    IF HasUnderline(cleaned_value)
    THEN [k \in {TextDecoration} |-> <<"underline">>] ELSE EmptyDict
  ELSE IF name = TextAlign THEN
    [k \in {TextAlign} |-> SplitWS(cleaned_value)[1]]
  ELSE EmptyDict

\* The loop over rule.style: the normalized properties of one rule.
RECURSIVE NormalizedProps(_, _)
NormalizedProps(props, decls) ==
  IF decls = <<>> THEN props
  ELSE LET name == Lower(Head(decls).name) IN
       NormalizedProps(
         IF name \notin INTERESTING_PROPERTIES THEN props
         ELSE merge_styles(props, _normalize_property(name, Head(decls).value)),
         Tail(decls))

\* The position of key in an insertion-ordered dict, 0 when absent.
Find(d, key) ==
  IF \E i \in 1..Len(d) : d[i].key = key
  THEN CHOOSE i \in 1..Len(d) : d[i].key = key
  ELSE 0

\* The assignment with the merge the other way round: what an earlier rule
\* set for the selector is kept.
PutSelectorFirstWins(sm, text, props) ==
  IF Find(sm, text) = 0
  THEN Append(sm, [key |-> text, style |-> props])
  ELSE [sm EXCEPT ![Find(sm, text)].style = merge_styles(props, @)]

\* The assignment as it would be in a dict that moves a key assigned again
\* to the end of its iteration order.
PutSelectorMovingLast(sm, text, props) ==
  IF Find(sm, text) = 0
  THEN Append(sm, [key |-> text, style |-> props])
  ELSE LET NotText(entry) == entry.key # text IN
       Append(SelectSeq(sm, NotText),
              [key |-> text, style |-> merge_styles(sm[Find(sm, text)].style, props)])

\* selector_map[selector_text] = merge_styles(selector_map.get(text, {}), props)
PutSelector(sm, text, props) ==
  IF Find(sm, text) = 0
  THEN Append(sm, [key |-> text, style |-> props])
  ELSE [sm EXCEPT ![Find(sm, text)].style = merge_styles(@, props)]

\* A setdefault that adds a group whether or not the key is present.
SetDefaultGroupAlwaysNew(gs, props) ==
  Append(gs, [key |-> props, selectors |-> <<>>])

\* grouped_styles.setdefault(key, {"properties": ..., "selectors": []})
SetDefaultGroup(gs, props) ==
  IF Find(gs, props) = 0
  THEN Append(gs, [key |-> props, selectors |-> <<>>])
  ELSE gs

\* The loop over rule.selectorList for one rule with non-empty properties.
RECURSIVE MergeSelectors(_, _, _)
MergeSelectors(st, props, selectorList) ==
  IF selectorList = <<>> THEN st
  ELSE LET selector_text == Strip(Head(selectorList)) IN
       MergeSelectors(
         IF selector_text = <<>> THEN st
         ELSE [selector_map |-> PutSelector(st.selector_map, selector_text, props),
               grouped_styles |->
                 [st.grouped_styles EXCEPT ![Find(st.grouped_styles, props)].selectors =
                    Append(@, selector_text)]],
         props, Tail(selectorList))

\* One iteration without the test of line 292: a rule is merged whatever
\* its declarations normalize to.
MergeRuleKeepingEmpty(st, rule) ==
  IF rule.type # "style" THEN st
  ELSE LET normalized_props == NormalizedProps(EmptyDict, rule.style) IN
       MergeSelectors(
         [selector_map |-> st.selector_map,
          grouped_styles |-> SetDefaultGroup(st.grouped_styles, normalized_props)],
         normalized_props, rule.selectorList)

\* One iteration of the loop of _merge_sheet over the rules of a sheet.
MergeRule(st, rule) ==
  IF rule.type # "style" THEN st
  ELSE LET normalized_props == NormalizedProps(EmptyDict, rule.style) IN
       IF DOMAIN normalized_props = {} THEN st
       ELSE MergeSelectors(
              [selector_map |-> st.selector_map,
               grouped_styles |-> SetDefaultGroup(st.grouped_styles, normalized_props)],
              normalized_props, rule.selectorList)

RECURSIVE _merge_sheet(_, _)
_merge_sheet(st, sheet) ==
  IF sheet = <<>> THEN st ELSE _merge_sheet(MergeRule(st, Head(sheet)), Tail(sheet))

\* tuple(sorted(props.items())): the key of a group.
RECURSIVE ItemsOf(_, _)
ItemsOf(props, keys) ==
  IF keys = <<>> THEN <<>>
  ELSE << <<Head(keys), props[Head(keys)]>> >> \o ItemsOf(props, Tail(keys))

PropsItems(props) == ItemsOf(props, SortedStrs(DOMAIN props))

\* Python's order on tuples of (key, value) pairs.
RECURSIVE ItemsLess(_, _)
ItemsLess(a, b) ==
  IF b = <<>> THEN FALSE
  ELSE IF a = <<>> THEN TRUE
  ELSE IF Head(a) = Head(b) THEN ItemsLess(Tail(a), Tail(b))
  ELSE IF Head(a)[1] # Head(b)[1] THEN StrLess(Head(a)[1], Head(b)[1])
  ELSE StrLess(Head(a)[2], Head(b)[2])

\* sorted(grouped_styles.items(), key=lambda item: item[0]): a stable sort,
\* here by insertion of each entry after the entries that are not greater.
RECURSIVE InsertGroup(_, _)
InsertGroup(sorted, g) ==
  IF sorted = <<>> THEN <<g>>
  ELSE IF ItemsLess(PropsItems(g.key), PropsItems(Head(sorted).key))
  THEN <<g>> \o sorted
  ELSE <<Head(sorted)>> \o InsertGroup(Tail(sorted), g)

RECURSIVE SortedGroups(_, _)
SortedGroups(sorted, gs) ==
  IF gs = <<>> THEN sorted
  ELSE SortedGroups(InsertGroup(sorted, Head(gs)), Tail(gs))

\* The StyleGroup built from one entry of grouped_styles or collapsed.
StyleGroupOf(properties, selectors) ==
  [properties |-> properties, selectors |-> SortedStrs(selectors)]

\* The group list in the iteration order of grouped_styles, without the sort.
OrderedGroupsUnsorted(gs) ==
  [i \in 1..Len(gs) |-> StyleGroupOf(gs[i].key, Range(gs[i].selectors))]

\* Lines 257-267: the ordered group list parse_css_sources returns.
OrderedGroups(gs) ==
  LET sorted == SortedGroups(<<>>, gs) IN
  [i \in 1..Len(sorted) |-> StyleGroupOf(sorted[i].key, Range(sorted[i].selectors))]

\* Whether a source reaches _merge_sheet: an inline block that is blank is
\* skipped, and so is a source for which the try block raises, in the parse
\* or in the diagnostic printing that follows it.
SourceMerged(src) == ~src.blank /\ src.parses /\ src.prints

\* One iteration in which a source that raises takes with it what the
\* earlier sources gave.
MergeSourceLosingEarlier(st, src) ==
  IF SourceMerged(src) THEN _merge_sheet(st, src.sheet)
  ELSE [selector_map |-> <<>>, grouped_styles |-> <<>>]

\* One iteration of a loop over the sources: the except clause logs and
\* continues, with what the earlier sources gave left as it is.
MergeSource(st, src) ==
  IF SourceMerged(src) THEN _merge_sheet(st, src.sheet) ELSE st

RECURSIVE MergeSources(_, _)
MergeSources(st, sources) ==
  IF sources = <<>> THEN st
  ELSE MergeSources(MergeSource(st, Head(sources)), Tail(sources))

\* The log.warning calls of the except clauses for a list of sources.
RECURSIVE Warnings(_)
Warnings(sources) ==
  IF sources = <<>> THEN 0
  ELSE (IF ~Head(sources).blank /\ ~(Head(sources).parses /\ Head(sources).prints)
        THEN 1 ELSE 0) + Warnings(Tail(sources))

\* parse_css_sources: all files, then all inline blocks.
parse_css_sources(css_list, inline_list) ==
  LET st == MergeSources([selector_map |-> <<>>, grouped_styles |-> <<>>],
                         css_list \o inline_list)
  IN [selector_map |-> st.selector_map, groups |-> OrderedGroups(st.grouped_styles)]

\* The first loop with the bucket replaced by the selectors of the group
\* instead of updated with them.
CollapseOneReplacing(collapsed, group) ==
  IF Find(collapsed, group.properties) = 0
  THEN Append(collapsed, [key |-> group.properties, selectors |-> Range(group.selectors)])
  ELSE [collapsed EXCEPT ![Find(collapsed, group.properties)].selectors =
          Range(group.selectors)]

\* One iteration of the first loop of collapse_style_groups.
CollapseOne(collapsed, group) ==
  IF Find(collapsed, group.properties) = 0
  THEN Append(collapsed, [key |-> group.properties, selectors |-> Range(group.selectors)])
  ELSE [collapsed EXCEPT ![Find(collapsed, group.properties)].selectors =
          @ \cup Range(group.selectors)]

RECURSIVE CollapseAll(_, _)
CollapseAll(collapsed, groups) ==
  IF groups = <<>> THEN collapsed
  ELSE CollapseAll(CollapseOne(collapsed, Head(groups)), Tail(groups))

collapse_style_groups(groups) ==
  LET collapsed == CollapseAll(<<>>, groups) IN
  [i \in 1..Len(collapsed) |-> StyleGroupOf(collapsed[i].key, collapsed[i].selectors)]

(***************************************************************************)
(* The document.  nodes is the sequence of the nodes of the tree in        *)
(* document order; a node is [kind, parent, name, attrs, data]: kind is    *)
(* "tag" or "text", parent the position of the parent element (0: the      *)
(* BeautifulSoup object itself, which has no attributes, no tag-implied    *)
(* style and is never returned by select, so that it adds nothing to a     *)
(* cascade), attrs the attributes of an element, data the str of a text    *)
(* node.                                                                   *)
(***************************************************************************)
TagNode(parent, name, attrs) ==
  [kind |-> "tag", parent |-> parent, name |-> name, attrs |-> attrs, data |-> <<>>]

TextNode(parent, data) ==
  [kind |-> "text", parent |-> parent, name |-> "", attrs |-> EmptyDict, data |-> data]

\* soup.find_all(True) / soup.find_all(string=True): the positions of the
\* nodes of one kind at or after position from, and the first of them (0: none).
FirstOf(ns, kind, from) ==
  IF \E j \in from..Len(ns) : ns[j].kind = kind
  THEN CHOOSE j \in from..Len(ns) :
         ns[j].kind = kind /\ \A k \in from..(j - 1) : ns[k].kind # kind
  ELSE 0

\* The selectors the matching facility rejects.
UnsupportedSelectors == {<<"p::first-line">>}

SelectRaises(selector) == selector \in UnsupportedSelectors

\* soup.select(selector) for the selectors of the model: a class selector,
\* an id selector, or a type selector.
SelectorMatches(selector, node) ==
  /\ node.kind = "tag"
  /\ CASE selector = <<".b">> ->
            "class" \in DOMAIN node.attrs /\ <<"b">> \in Range(SplitWS(node.attrs["class"]))
       [] selector = <<".title">> ->
            "class" \in DOMAIN node.attrs /\ <<"title">> \in Range(SplitWS(node.attrs["class"]))
       [] selector = <<"#x">> ->
            "id" \in DOMAIN node.attrs /\ node.attrs["id"] = <<"x">>
       [] OTHER -> selector = <<node.name>>

Select(ns, selector) == {e \in 1..Len(ns) : SelectorMatches(selector, ns[e])}

\* element.attrs without one attribute (del element.attrs[a], attrs.pop(a, None)).
DelAttr(attrs, a) == [x \in DOMAIN attrs \ {a} |-> attrs[x]]

\* element[a] = value
SetAttr(attrs, a, value) ==
  [x \in DOMAIN attrs \cup {a} |-> IF x = a THEN value ELSE attrs[x]]

\* parse_inline_style(style_attr if isinstance(style_attr, str) else None)
InlineStyle(node) ==
  IF "style" \in DOMAIN node.attrs THEN parse_inline_style(node.attrs["style"])
  ELSE EmptyDict

\* The text of the node as it is, neither collapsed nor trimmed.
NormalizedTextRaw(data) == data

\* " ".join(str(text_node).split())
NormalizedText(data) == Join(SplitWS(data), <<" ">>)

\* Lines 605-611: the ancestors of a node, from the outermost down to its parent.
RECURSIVE Ancestors(_, _)
Ancestors(ns, n) ==
  IF ns[n].parent = 0 THEN <<>>
  ELSE Append(Ancestors(ns, ns[n].parent), ns[n].parent)

\* Lines 616-628: selector, inline and tag-implied style of one ancestor.
AncCombined(ns, es, anc) ==
  merge_styles(merge_styles(es[anc], InlineStyle(ns[anc])),
               features_from_tag(ns[anc].name))

\* The loop over the ancestors with the merge the other way round: the
\* farther ancestor overrides the nearer one.
RECURSIVE CascadeFartherWins(_, _, _, _)
CascadeFartherWins(ns, es, acc, ancestors) ==
  IF ancestors = <<>> THEN acc
  ELSE CascadeFartherWins(ns, es,
                          merge_styles(AncCombined(ns, es, Head(ancestors)), acc),
                          Tail(ancestors))

\* Lines 613-629: the loop over the ancestors.
RECURSIVE Cascade(_, _, _, _)
Cascade(ns, es, acc, ancestors) ==
  IF ancestors = <<>> THEN acc
  ELSE Cascade(ns, es, merge_styles(acc, AncCombined(ns, es, Head(ancestors))),
               Tail(ancestors))

\* The style written back if only tracked properties that normalize and
\* properties outside the tracked four were kept.
FinalStyleTrackedOnly(computed) ==
  merge_styles([k \in DOMAIN computed \ INTERESTING_PROPERTIES |-> computed[k]],
               normalize_tracked_properties(computed))

\* The style written back if it were the normalized tracked properties alone.
FinalStyleNormalizedOnly(computed) == normalize_tracked_properties(computed)

\* Lines 569-574: the style written back for an element.
FinalStyle(computed) ==
  LET tracked_properties == normalize_tracked_properties(computed)
      remaining_inline ==
        [k \in {x \in DOMAIN computed : x \notin DOMAIN tracked_properties} |-> computed[k]]
  IN merge_styles(remaining_inline, tracked_properties)

\* The computed style with the selector-derived style overriding the inline one.
ComputedStyleSelectorWins(es, node) ==
  merge_styles(merge_styles(InlineStyle(node), es), features_from_tag(node.name))

\* Lines 544-553: selector-derived, then inline, then tag-implied.
ComputedStyle(es, node) ==
  merge_styles(merge_styles(es, InlineStyle(node)), features_from_tag(node.name))

\* The attributes after the element pass if the branch for an empty computed
\* style left the class attribute in place.
RewrittenAttrsKeepClass(attrs, computed) ==
  IF DOMAIN computed = {} THEN attrs
  ELSE DelAttr(
         IF DOMAIN FinalStyle(computed) # {}
         THEN SetAttr(attrs, "style", FormatStyle(FinalStyle(computed)))
         ELSE DelAttr(attrs, "style"),
         "class")

\* Lines 560-583: the attributes of an element after the element pass.
RewrittenAttrs(attrs, computed) ==
  IF DOMAIN computed = {} THEN DelAttr(attrs, "class")
  ELSE DelAttr(
         IF DOMAIN FinalStyle(computed) # {}
         THEN SetAttr(attrs, "style", FormatStyle(FinalStyle(computed)))
         ELSE DelAttr(attrs, "style"),
         "class")

\* The element pass replacing an element that carries tag-implied style by
\* a span with that style.
RewriteElementRenaming(ns, e, computed) ==
  [ns EXCEPT ![e].attrs = RewrittenAttrs(@, computed),
             ![e].name = IF DOMAIN features_from_tag(@) # {} THEN "span" ELSE @]

\* Lines 560-583: the document after the element pass has visited element e.
RewriteElement(ns, e, computed) ==
  [ns EXCEPT ![e].attrs = RewrittenAttrs(@, computed)]

\* The labels joined in the order they were appended.
FormatLabelsUnsorted(labels) == Join(labels, <<",", " ">>)

\* ", ".join(sorted(labels))
FormatLabels(labels) == Join(SortedStrs(Range(labels)), <<",", " ">>)

\* Lines 637-643
Entry(book, chapter, element, text, labels) ==
  [book |-> book, chapter |-> chapter, element |-> element, text |-> text,
   format |-> FormatLabels(labels)]

(***************************************************************************)
(* apply_styles_to_soup, one action for each iteration of its three loops. *)
(***************************************************************************)
EnterTexts(ns) ==
  IF FirstOf(ns, "text", 1) = 0 THEN [pc |-> "done", i |-> 0]
  ELSE [pc |-> "texts", i |-> FirstOf(ns, "text", 1)]

EnterElements(ns) ==
  IF FirstOf(ns, "tag", 1) = 0 THEN EnterTexts(ns)
  ELSE [pc |-> "elements", i |-> FirstOf(ns, "tag", 1)]

\* One iteration in which a rejected selector takes with it the styles the
\* earlier selectors gave.
ApplySelectorLosingEarlier(es, ns, selector, style) ==
  IF SelectRaises(selector) THEN [e \in DOMAIN es |-> EmptyDict]
  ELSE [e \in DOMAIN es |->
          IF e \in Select(ns, selector) THEN merge_styles(es[e], style) ELSE es[e]]

\* One iteration in which the style an element already has is kept on the
\* keys the selector sets too.
ApplySelectorFirstWins(es, ns, selector, style) ==
  IF SelectRaises(selector) THEN es
  ELSE [e \in DOMAIN es |->
          IF e \in Select(ns, selector) THEN merge_styles(style, es[e]) ELSE es[e]]

\* Lines 486-493: one selector; the except clause logs and continues.
ApplySelector(es, ns, selector, style) ==
  IF SelectRaises(selector) THEN es
  ELSE [e \in DOMAIN es |->
          IF e \in Select(ns, selector) THEN merge_styles(es[e], style) ELSE es[e]]

EnterCall(ns, styles) ==
  IF styles = <<>> THEN EnterElements(ns) ELSE [pc |-> "select", i |-> 1]

\* Lines 485-493: one selector of selector_styles.
SelectStep ==
  /\ pc = "select"
  /\ LET selector == selector_styles[pos].key
         style == selector_styles[pos].style
         next == IF pos < Len(selector_styles) THEN [pc |-> "select", i |-> pos + 1]
                 ELSE EnterElements(nodes)
     IN /\ element_styles' = ApplySelector(element_styles, nodes, selector, style)
        /\ pc' = next.pc
        /\ pos' = next.i
  /\ UNCHANGED << nodes, orig, selector_styles, book_number, chapter_index,
                  tag_cascaded_styles, computed_style, cascaded,
                  formatted_entries, run, cssVars, normVars, writerVars >>

\* The cascaded style of an element built from its computed style, as it
\* stood before the normalization, in place of the style written back.
ElementCascadeOfComputed(parent_cascade, computed, final_style) ==
  IF DOMAIN computed = {} \/ DOMAIN final_style = {} THEN parent_cascade
  ELSE merge_styles(parent_cascade, computed)

\* Lines 560-564 and 585-588: the cascaded style kept for an element.
ElementCascade(parent_cascade, computed, final_style) ==
  IF DOMAIN computed = {} \/ DOMAIN final_style = {} THEN parent_cascade
  ELSE merge_styles(parent_cascade, final_style)

\* Lines 538-588: one element of soup.find_all(True).
ElementStep ==
  /\ pc = "elements"
  /\ LET element == nodes[pos]
         computed == ComputedStyle(element_styles[pos], element)
         parent_cascade ==
           IF element.parent \in DOMAIN tag_cascaded_styles
           THEN tag_cascaded_styles[element.parent] ELSE EmptyDict
         final_style == FinalStyle(computed)
         cascaded_style == ElementCascade(parent_cascade, computed, final_style)
         next == IF FirstOf(nodes, "tag", pos + 1) = 0 THEN EnterTexts(nodes)
                 ELSE [pc |-> "elements", i |-> FirstOf(nodes, "tag", pos + 1)]
     IN /\ nodes' = RewriteElement(nodes, pos, computed)
        /\ computed_style' =
             [e \in DOMAIN computed_style \cup {pos} |->
                IF e = pos THEN computed ELSE computed_style[e]]
        /\ tag_cascaded_styles' =
             [e \in DOMAIN tag_cascaded_styles \cup {pos} |->
                IF e = pos THEN cascaded_style ELSE tag_cascaded_styles[e]]
        /\ pc' = next.pc
        /\ pos' = next.i
  /\ UNCHANGED << orig, selector_styles, book_number, chapter_index,
                  element_styles, cascaded, formatted_entries, run, cssVars, normVars, writerVars >>

\* Lines 590-644: one text node of soup.find_all(string=True).
TextStep ==
  /\ pc = "texts"
  /\ LET text_node == nodes[pos]
         normalized_text == NormalizedText(text_node.data)
         casc == Cascade(nodes, element_styles, EmptyDict, Ancestors(nodes, pos))
         tracked_props == normalize_tracked_properties(casc)
         labels == labels_from_style(tracked_props)
         next == IF FirstOf(nodes, "text", pos + 1) = 0 THEN [pc |-> "done", i |-> 0]
                 ELSE [pc |-> "texts", i |-> FirstOf(nodes, "text", pos + 1)]
     IN /\ IF normalized_text = <<>>
           THEN UNCHANGED << cascaded, formatted_entries >>
           ELSE /\ cascaded' =
                     [t \in DOMAIN cascaded \cup {pos} |->
                        IF t = pos THEN casc ELSE cascaded[t]]
                /\ formatted_entries' =
                     IF labels = <<>> THEN formatted_entries
                     ELSE Append(formatted_entries,
                                 Entry(book_number, chapter_index,
                                       nodes[text_node.parent].name,
                                       normalized_text, labels))
        /\ pc' = next.pc
        /\ pos' = next.i
  /\ UNCHANGED << nodes, orig, selector_styles, book_number, chapter_index,
                  element_styles, tag_cascaded_styles, computed_style, run,
                  cssVars, normVars, writerVars >>

\* A second call of apply_styles_to_soup, on the document the first call
\* produced and with the same arguments.
Rerun ==
  /\ pc = "done"
  /\ run = 1
  /\ run' = 2
  /\ orig' = nodes
  /\ element_styles' = [e \in DOMAIN element_styles |-> EmptyDict]
  /\ tag_cascaded_styles' = EmptyDict
  /\ computed_style' = EmptyDict
  /\ cascaded' = EmptyDict
  /\ formatted_entries' = <<>>
  /\ pc' = EnterCall(nodes, selector_styles).pc
  /\ pos' = EnterCall(nodes, selector_styles).i
  /\ UNCHANGED << nodes, selector_styles, book_number, chapter_index, cssVars, normVars, writerVars >>

(***************************************************************************)
(* Inputs.                                                                 *)
(***************************************************************************)
Decl(name, value) == [name |-> name, value |-> value]

StyleRule(selectorList, style) ==
  [type |-> "style", selectorList |-> selectorList, style |-> style]

Source(sheet) == [blank |-> FALSE, parses |-> TRUE, prints |-> TRUE, sheet |-> sheet]

\* .title{font-weight:bold} #x{font-style:italic}
SheetTitle ==
  << StyleRule(<< <<".title">> >>, << Decl(<<"font-weight">>, <<"bold">>) >>),
     StyleRule(<< <<"#x">> >>, << Decl(<<"font-style">>, <<"italic">>) >>) >>

\* .b{FONT-WEIGHT: 700 !important; color:red}
\* p, span {text-align: LEFT center; font-weight: bold}
\* p::first-line{font-style:italic}
SheetBold ==
  << StyleRule(<< <<".b">> >>,
               << Decl(<<"FONT-WEIGHT">>, <<" ", "700", " ", "!important">>),
                  Decl(<<"color">>, <<"red">>) >>),
     StyleRule(<< <<"p">>, <<" ", "span">> >>,
               << Decl(<<"text-align">>, <<"LEFT", " ", "center">>),
                  Decl(<<"font-weight">>, <<"bold">>) >>),
     StyleRule(<< <<"p::first-line">> >>, << Decl(<<"font-style">>, <<"italic">>) >>) >>

\* #x {text-align: left}
\* .title {text-align: center; font-weight: bold}
\* #x {text-align: right}
SheetAlign ==
  << StyleRule(<< <<"#x">> >>, << Decl(<<"text-align">>, <<"left">>) >>),
     StyleRule(<< <<".title">> >>, << Decl(<<"text-align">>, <<"center">>),
                                      Decl(<<"font-weight">>, <<"bold">>) >>),
     StyleRule(<< <<"#x">> >>, << Decl(<<"text-align">>, <<"right">>) >>) >>

\* The calls of the model: the CSS of the book (the files, then the inline
\* blocks) that selector_styles is built from, and the identifiers.
Calls ==
  { [css_files |-> <<>>, inline_css |-> <<>>, book_number |-> 0, chapter_index |-> 1],
    [css_files |-> <<Source(SheetTitle)>>, inline_css |-> <<>>,
     book_number |-> 3, chapter_index |-> 2],
    [css_files |-> <<Source(SheetBold)>>, inline_css |-> <<Source(SheetTitle)>>,
     book_number |-> 3, chapter_index |-> 1],
    [css_files |-> <<Source(SheetAlign)>>, inline_css |-> <<>>,
     book_number |-> 0, chapter_index |-> 2] }

\* The elements of the model's documents:
\*   <div class="b" style="text-decoration:underline overline;text-align: Center ">
\*   <p class="title" id="x">
\*   <span class="b" style="font-weight:400">
\*   <b style=" FONT-WEIGHT :normal;color: red">
\*   <div class="a" style=" ;color">
ElemKinds ==
  { [name |-> "div", attrs |-> [class |-> <<"b">>,
                                style |-> <<"text-decoration", ":", "underline", " ",
                                            "overline", ";", "text-align", ":", " ",
                                            "Center", " ">>]],
    [name |-> "p", attrs |-> [class |-> <<"title">>, id |-> <<"x">>]],
    [name |-> "span", attrs |-> [class |-> <<"b">>,
                                 style |-> <<"font-weight", ":", "400">>]],
    [name |-> "b", attrs |-> [style |-> <<" ", "FONT-WEIGHT", " ", ":", "normal",
                                          ";", "color", ":", " ", "red">>]],
    [name |-> "div", attrs |-> [class |-> <<"a">>, style |-> <<" ", ";", "color">>]] }

\* The strings of the model's text nodes.
TextData == { <<"Hello", " ", "\n", "world", " ">>, <<" ", "\n">> }

\* The elements a node appended to doc can be a child of: the last node, if
\* it is an element, and the ancestors of the last node.
OpenElements(doc) ==
  Range(Ancestors(doc, Len(doc)))
    \cup (IF doc[Len(doc)].kind = "tag" THEN {Len(doc)} ELSE {})

Extensions(doc) ==
  {Append(doc, TagNode(p, e.name, e.attrs)) : p \in OpenElements(doc), e \in ElemKinds}
    \cup {Append(doc, TextNode(p, d)) : p \in OpenElements(doc), d \in TextData}

\* The documents of n nodes: one root element, the nodes in document order.
RECURSIVE DocsOfLen(_)
DocsOfLen(n) ==
  IF n = 1 THEN {<<TagNode(0, e.name, e.attrs)>> : e \in ElemKinds}
  ELSE UNION {Extensions(doc) : doc \in DocsOfLen(n - 1)}

Docs == UNION {DocsOfLen(n) : n \in 1..MaxNodes}

(***************************************************************************)
(* process_book: the CSS of one book.  The base styles are parsed from the *)
(* CSS files and the inline blocks of the first HTML file, one action for  *)
(* each source; then one action for each chapter, and the collapse of the  *)
(* collected groups.                                                       *)
(***************************************************************************)

\* dict(base).update(extra) on insertion-ordered dicts of selector styles.
RECURSIVE UpdateDict(_, _)
UpdateDict(base, extra) ==
  IF extra = <<>> THEN base
  ELSE UpdateDict(
         IF Find(base, Head(extra).key) = 0 THEN Append(base, Head(extra))
         ELSE [base EXCEPT ![Find(base, Head(extra).key)].style = Head(extra).style],
         Tail(extra))

EmptySummary == [selectors |-> <<>>, groups |-> <<>>]

EnterReturn == [pc |-> "return", i |-> 0]

EnterInline(blocks) ==
  IF blocks = <<>> THEN EnterReturn ELSE [pc |-> "inline", i |-> 1]

EnterFiles(files, blocks) ==
  IF files = <<>> THEN EnterInline(blocks) ELSE [pc |-> "files", i |-> 1]

\* Lines 682-693: no HTML file, or the sources of the base styles.
OpenBook ==
  /\ css_pc = "start"
  /\ IF chapters = <<>>
     THEN /\ css_pc' = "done"
          /\ css_pos' = 0
          /\ css_summary' = EmptySummary
     ELSE /\ css_pc' = EnterFiles(css_files, chapters[1]).pc
          /\ css_pos' = EnterFiles(css_files, chapters[1]).i
          /\ UNCHANGED css_summary
  /\ UNCHANGED << css_files, chapters, selector_map, grouped_styles,
                  base_selector_styles, base_style_groups,
                  summary_selector_styles, summary_style_groups, inline_groups,
                  combined_styles, log_warnings, pandoc_fails, markdown_written,
                  domVars, normVars, writerVars >>

\* The state _merge_sheet works on.
ParseState == [selector_map |-> selector_map, grouped_styles |-> grouped_styles]

\* Lines 207-229: one CSS file.
ParseFile ==
  /\ css_pc = "files"
  /\ LET st == MergeSource(ParseState, css_files[css_pos])
         next == IF css_pos < Len(css_files) THEN [pc |-> "files", i |-> css_pos + 1]
                 ELSE EnterInline(chapters[1])
     IN /\ selector_map' = st.selector_map
        /\ grouped_styles' = st.grouped_styles
        /\ css_pc' = next.pc
        /\ css_pos' = next.i
  /\ log_warnings' = log_warnings + Warnings(<<css_files[css_pos]>>)
  /\ UNCHANGED << css_files, chapters, base_selector_styles, base_style_groups,
                  summary_selector_styles, summary_style_groups, inline_groups,
                  combined_styles, css_summary, pandoc_fails, markdown_written,
                  domVars, normVars, writerVars >>

\* Lines 231-255: one inline block of the first HTML file.
ParseInline ==
  /\ css_pc = "inline"
  /\ LET st == MergeSource(ParseState, chapters[1][css_pos])
         next == IF css_pos < Len(chapters[1]) THEN [pc |-> "inline", i |-> css_pos + 1]
                 ELSE EnterReturn
     IN /\ selector_map' = st.selector_map
        /\ grouped_styles' = st.grouped_styles
        /\ css_pc' = next.pc
        /\ css_pos' = next.i
  /\ log_warnings' = log_warnings + Warnings(<<chapters[1][css_pos]>>)
  /\ UNCHANGED << css_files, chapters, base_selector_styles, base_style_groups,
                  summary_selector_styles, summary_style_groups, inline_groups,
                  combined_styles, css_summary, pandoc_fails, markdown_written,
                  domVars, normVars, writerVars >>

\* Lines 257-267 and 694-700: parse_css_sources returns the base styles.
ReturnParsed ==
  /\ css_pc = "return"
  /\ base_selector_styles' = selector_map
  /\ base_style_groups' = OrderedGroups(grouped_styles)
  /\ summary_selector_styles' = selector_map
  /\ summary_style_groups' = OrderedGroups(grouped_styles)
  /\ css_pc' = "chapters"
  /\ css_pos' = 1
  /\ UNCHANGED << css_files, chapters, selector_map, grouped_styles,
                  inline_groups, combined_styles, css_summary, log_warnings,
                  pandoc_fails, markdown_written, domVars, normVars, writerVars >>

\* The two statements without the copy: combined_styles is the base dict
\* itself, and the update is made in it.
CombineStylesInPlace(base, inline_selector_styles) ==
  [base |-> UpdateDict(base, inline_selector_styles),
   combined |-> UpdateDict(base, inline_selector_styles)]

\* Lines 708-709: combined_styles = dict(base_selector_styles) followed by
\* combined_styles.update(inline_selector_styles), as the pair of the two
\* dicts after the two statements: the copy leaves the base as it was.
CombineStyles(base, inline_selector_styles) ==
  [base |-> base, combined |-> UpdateDict(base, inline_selector_styles)]

\* Lines 702-737: one chapter.  Its styles are combined, the styles are
\* applied and the HTML written; a PandocError raised by the conversion is
\* logged and raised again, out of the loop and out of process_book.
ChapterStep ==
  /\ css_pc = "chapters"
  /\ LET inline_blocks == chapters[css_pos]
         parsed == parse_css_sources(<<>>, inline_blocks)
         both == CombineStyles(base_selector_styles, parsed.selector_map)
     IN IF inline_blocks # <<>>
        THEN /\ combined_styles' = both.combined
             /\ base_selector_styles' = both.base
             /\ summary_selector_styles' =
                  UpdateDict(summary_selector_styles, parsed.selector_map)
             /\ summary_style_groups' = summary_style_groups \o parsed.groups
             /\ inline_groups' = parsed.groups
             /\ log_warnings' = log_warnings + Warnings(inline_blocks)
        ELSE /\ combined_styles' = base_selector_styles
             /\ UNCHANGED << base_selector_styles, summary_selector_styles,
                             summary_style_groups, inline_groups, log_warnings >>
  /\ IF css_pos \in pandoc_fails
     THEN /\ css_pc' = "raised"
          /\ css_pos' = 0
          /\ UNCHANGED markdown_written
     ELSE /\ css_pc' = IF css_pos < Len(chapters) THEN "chapters" ELSE "collapse"
          /\ css_pos' = IF css_pos < Len(chapters) THEN css_pos + 1 ELSE 0
          /\ markdown_written' = markdown_written \cup {css_pos}
  /\ UNCHANGED << css_files, chapters, selector_map, grouped_styles,
                  base_style_groups, css_summary, pandoc_fails, domVars, normVars, writerVars >>

\* Lines 739-743: the summary of the book.
Collapse ==
  /\ css_pc = "collapse"
  /\ css_summary' = [selectors |-> summary_selector_styles,
                     groups |-> collapse_style_groups(summary_style_groups)]
  /\ css_pc' = "done"
  /\ UNCHANGED << css_files, chapters, css_pos, selector_map, grouped_styles,
                  base_selector_styles, base_style_groups,
                  summary_selector_styles, summary_style_groups, inline_groups,
                  combined_styles, log_warnings, pandoc_fails, markdown_written,
                  domVars, normVars, writerVars >>

\* .title, #x {font-weight: bolder}  @media print {...}  div {color: red}
\* div {font-style: oblique; FONT-STYLE: normal}
\* .title, p {text-align: center; text-align: right}
\* span {font-weight: normal}
\* .title {text-align: Center !important}
SheetDup ==
  << StyleRule(<< <<".title">>, <<"#x">> >>, << Decl(<<"font-weight">>, <<"bolder">>) >>),
     [type |-> "media", selectorList |-> <<>>, style |-> <<>>],
     StyleRule(<< <<"div">> >>, << Decl(<<"color">>, <<"red">>) >>),
     StyleRule(<< <<"div">> >>, << Decl(<<"font-style">>, <<"oblique">>),
                                   Decl(<<"FONT-STYLE">>, <<"normal">>) >>),
     StyleRule(<< <<".title">>, <<" ", "p">> >>,
               << Decl(<<"text-align">>, <<"center">>),
                  Decl(<<"text-align">>, <<" ", "right">>) >>),
     StyleRule(<< <<"span">> >>, << Decl(<<"font-weight">>, <<"normal">>) >>),
     StyleRule(<< <<".title">> >>,
               << Decl(<<"text-align">>, <<"Center", " ", "!important">>) >>) >>

\* A source cssutils cannot parse, one whose diagnostic printing raises, and
\* an inline block of white space.
FailedSource == [blank |-> FALSE, parses |-> FALSE, prints |-> TRUE, sheet |-> <<>>]
UnprintedSource ==
  [blank |-> FALSE, parses |-> TRUE, prints |-> FALSE, sheet |-> SheetTitle]
BlankSource == [blank |-> TRUE, parses |-> TRUE, prints |-> TRUE, sheet |-> <<>>]

FileSources ==
  {Source(SheetTitle), Source(SheetBold), Source(SheetDup), FailedSource,
   UnprintedSource}

\* The inline blocks of one HTML file.
InlineBlocks ==
  { <<>>, <<Source(SheetTitle)>>, <<Source(SheetDup)>>, <<BlankSource>>,
    <<FailedSource, Source(SheetBold)>> }

SeqsUpTo(S, n) == UNION {[1..k -> S] : k \in 0..n}

(***************************************************************************)
(* _JsonArrayWriter.  The file is a sequence of pieces: the literal texts  *)
(* the writer emits and the dumped items.                                  *)
(***************************************************************************)
Lit(text) == [kind |-> "lit", text |-> text]

\* Lines 121-125: json.dumps(item) with every line padded.
Dumped(item) == [kind |-> "item", text |-> item]

\* The text before an item if every item were preceded by a comma.
SeparatorAlwaysComma(count) == Lit(",\n")

\* Lines 117-120: the text before an item.
Separator(count) == IF count # 0 THEN Lit(",\n") ELSE Lit("\n")

\* Lines 142-144: the text that closes the array.
Closing(count) == (IF count # 0 THEN <<Lit("\n")>> ELSE <<>>) \o <<Lit("]\n")>>

\* The entries given to write.
WriterItems == {"entry1", "entry2"}

WriterNew ==
  /\ w_phase = "new"
  /\ w_file = FALSE
  /\ w_count = 0
  /\ w_text = <<>>
  /\ w_items = <<>>
  /\ w_outside = 0
  /\ w_raised = 0
  /\ w_exc = FALSE

\* The writer while the model runs another part of the program.
WriterIdle == WriterNew

\* Lines 105-110: __enter__, called once by the with statement of main.
WriterEnter ==
  /\ w_phase = "new"
  /\ w_phase' = "entered"
  /\ w_file' = TRUE
  /\ w_text' = <<Lit("[")>>
  /\ UNCHANGED << w_count, w_items, w_outside, w_raised, w_exc,
                  domVars, cssVars, normVars >>

\* Lines 112-126: write, called at any time.
WriterWrite ==
  \E item \in WriterItems :
    /\ IF w_phase = "entered"
       THEN /\ Len(w_items) < MaxWrites
            /\ w_items' = Append(w_items, item)
            /\ UNCHANGED w_outside
       ELSE /\ w_outside < MaxRaises
            /\ w_outside' = w_outside + 1
            /\ UNCHANGED w_items
    /\ IF ~w_file
       THEN /\ w_raised' = w_raised + 1
            /\ UNCHANGED << w_text, w_count >>
       ELSE /\ w_text' = w_text \o <<Separator(w_count), Dumped(item)>>
            /\ w_count' = w_count + 1
            /\ UNCHANGED w_raised
    /\ UNCHANGED << w_phase, w_file, w_exc, domVars, cssVars, normVars >>

\* Lines 133-145: __exit__, called once by the with statement of main when
\* its body returns or raises.
WriterExit ==
  /\ w_phase = "entered"
  /\ w_phase' = "exited"
  /\ \E exc \in BOOLEAN : w_exc' = exc
  /\ IF ~w_file
     THEN UNCHANGED << w_text, w_file >>
     ELSE /\ w_text' = w_text \o Closing(w_count)
          /\ w_file' = FALSE
  /\ UNCHANGED << w_count, w_items, w_outside, w_raised, domVars, cssVars, normVars >>

\* The state of the CSS variables while a document is processed, and of the
\* document variables while the CSS of a book is processed.
CssIdle ==
  /\ css_files = <<>>
  /\ chapters = <<>>
  /\ css_pc = "idle"
  /\ css_pos = 0
  /\ selector_map = <<>>
  /\ grouped_styles = <<>>
  /\ base_selector_styles = <<>>
  /\ base_style_groups = <<>>
  /\ summary_selector_styles = <<>>
  /\ summary_style_groups = <<>>
  /\ inline_groups = <<>>
  /\ combined_styles = <<>>
  /\ css_summary = EmptySummary
  /\ log_warnings = 0
  /\ pandoc_fails = {}
  /\ markdown_written = {}

DomIdle ==
  /\ nodes = <<>>
  /\ orig = <<>>
  /\ selector_styles = <<>>
  /\ book_number = 0
  /\ chapter_index = 0
  /\ pc = "idle"
  /\ pos = 0
  /\ element_styles = EmptyDict
  /\ tag_cascaded_styles = EmptyDict
  /\ computed_style = EmptyDict
  /\ cascaded = EmptyDict
  /\ formatted_entries = <<>>
  /\ run = 1

\* The state of the variables of _normalize_property while it is not called.
NormIdle ==
  /\ np_name = <<>>
  /\ np_value = <<>>
  /\ np_pc = "idle"
  /\ np_result = EmptyDict

InitCss ==
  /\ css_files \in SeqsUpTo(FileSources, MaxFiles)
  /\ chapters \in SeqsUpTo(InlineBlocks, MaxChapters)
  /\ css_pc = "start"
  /\ css_pos = 0
  /\ selector_map = <<>>
  /\ grouped_styles = <<>>
  /\ base_selector_styles = <<>>
  /\ base_style_groups = <<>>
  /\ summary_selector_styles = <<>>
  /\ summary_style_groups = <<>>
  /\ inline_groups = <<>>
  /\ combined_styles = <<>>
  /\ css_summary = EmptySummary
  /\ log_warnings = 0
  /\ pandoc_fails \in SUBSET (1..Len(chapters))
  /\ markdown_written = {}
  /\ DomIdle
  /\ NormIdle
  /\ WriterIdle

\* The names _normalize_property is called with (lower case, line 288), and
\* one that is not tracked.
NormNames == INTERESTING_PROPERTIES \cup {<<"color">>}

NormAtoms ==
  {" ", "!important", "BOLD", "bolder", "normal", "300", "400", "450.5", "500",
   "700", "LEFT", "center", "italic", "underline"}

\* The values: words separated by white space, with an optional !important
\* after the last word.
NormValues ==
  {v \in UNION {[1..n -> NormAtoms] : n \in 0..MaxValueLen} :
     /\ \A j \in 1..(Len(v) - 1) :
          v[j] \in {" ", "!important"} \/ v[j + 1] \in {" ", "!important"}
     /\ \A j \in 1..Len(v) :
          v[j] = "!important" => \A m \in (j + 1)..Len(v) : v[m] = " "}

InitNorm ==
  /\ np_name \in NormNames
  /\ np_value \in NormValues
  /\ np_pc = "call"
  /\ np_result = EmptyDict
  /\ DomIdle
  /\ CssIdle
  /\ WriterIdle

\* Lines 336-370: one call of _normalize_property.
Normalize ==
  /\ np_pc = "call"
  /\ IF NormalizeRaises(np_name, np_value)
     THEN /\ np_pc' = "raised"
          /\ UNCHANGED np_result
     ELSE /\ np_pc' = "returned"
          /\ np_result' = _normalize_property(np_name, np_value)
  /\ UNCHANGED << np_name, np_value, domVars, cssVars, writerVars >>

NextNorm == Normalize

SpecNorm == InitNorm /\ [][NextNorm]_vars

InitWriter ==
  /\ WriterNew
  /\ DomIdle
  /\ CssIdle
  /\ NormIdle

NextWriter == WriterEnter \/ WriterWrite \/ WriterExit

SpecWriter == InitWriter /\ [][NextWriter]_vars

NextCss ==
  OpenBook \/ ParseFile \/ ParseInline \/ ReturnParsed \/ ChapterStep \/ Collapse

SpecCss == InitCss /\ [][NextCss]_vars

Init ==
  /\ nodes \in Docs
  /\ orig = nodes
  /\ \E call \in Calls :
       /\ selector_styles =
            parse_css_sources(call.css_files, call.inline_css).selector_map
       /\ book_number = call.book_number
       /\ chapter_index = call.chapter_index
  /\ pc = EnterCall(nodes, selector_styles).pc
  /\ pos = EnterCall(nodes, selector_styles).i
  /\ element_styles = [e \in 1..Len(nodes) |-> EmptyDict]
  /\ tag_cascaded_styles = EmptyDict
  /\ computed_style = EmptyDict
  /\ cascaded = EmptyDict
  /\ formatted_entries = <<>>
  /\ run = 1
  /\ CssIdle
  /\ NormIdle
  /\ WriterIdle

Next == SelectStep \/ ElementStep \/ TextStep

Spec == Init /\ [][Next]_vars

\* The first call followed by a second call on its output.
NextTwice == SelectStep \/ ElementStep \/ TextStep \/ Rerun

SpecTwice == Init /\ [][NextTwice]_vars

\* One font-weight declaration in a style attribute and in a stylesheet:
\*   <span style="font-weight:V">Hello world</span><p>Hello world</p>
\* with the stylesheet p {font-weight: V}.
WeightAtoms ==
  {" ", "!important", "BOLD", "bold", "bolder", "normal", "400", "500", "600",
   "700", "900"}

\* The values: words separated by white space, with an optional !important
\* after the last word.
WeightValues ==
  {v \in UNION {[1..n -> WeightAtoms] : n \in 0..MaxValueLen} :
     /\ \A j \in 1..(Len(v) - 1) :
          v[j] \in {" ", "!important"} \/ v[j + 1] \in {" ", "!important"}
     /\ \A j \in 1..Len(v) :
          v[j] = "!important" => \A n \in (j + 1)..Len(v) : v[n] = " "}

DocWeight(v) ==
  << TagNode(0, "span", [style |-> <<"font-weight", ":">> \o v]),
     TextNode(1, <<"Hello", " ", "world">>),
     TagNode(0, "p", EmptyDict),
     TextNode(3, <<"Hello", " ", "world">>) >>

SheetWeight(v) == << StyleRule(<< <<"p">> >>, << Decl(<<"font-weight">>, v) >>) >>

InitInline ==
  /\ \E v \in WeightValues :
       /\ nodes = DocWeight(v)
       /\ selector_styles =
            parse_css_sources(<<Source(SheetWeight(v))>>, <<>>).selector_map
  /\ orig = nodes
  /\ book_number = 1
  /\ chapter_index = 1
  /\ pc = EnterCall(nodes, selector_styles).pc
  /\ pos = EnterCall(nodes, selector_styles).i
  /\ element_styles = [e \in 1..Len(nodes) |-> EmptyDict]
  /\ tag_cascaded_styles = EmptyDict
  /\ computed_style = EmptyDict
  /\ cascaded = EmptyDict
  /\ formatted_entries = <<>>
  /\ run = 1
  /\ CssIdle
  /\ NormIdle
  /\ WriterIdle

NextInline == SelectStep \/ ElementStep \/ TextStep

SpecInline == InitInline /\ [][NextInline]_vars

(***************************************************************************)
(* Properties.                                                             *)
(***************************************************************************)
TagIdx == {e \in 1..Len(nodes) : nodes[e].kind = "tag"}
TextIdx == {t \in 1..Len(nodes) : nodes[t].kind = "text"}
AncSet(n) == Range(Ancestors(nodes, n))

\* The style an ancestor contributes when the text nodes are labelled.
StyleOf(a) == AncCombined(nodes, element_styles, a)

\* The ancestors of text node t whose style sets key k.
Holders(t, k) == {a \in AncSet(t) : k \in DOMAIN StyleOf(a)}

\* The holder nearest to t: every other holder is one of its ancestors.
Nearest(t, k) ==
  CHOOSE h \in Holders(t, k) : \A g \in Holders(t, k) \ {h} : g \in AncSet(h)

\* The element styles of the ancestors merged from the root down, the
\* nearer ancestor overriding the farther one.
RECURSIVE ElementStyleCascade(_)
ElementStyleCascade(ancestors) ==
  IF ancestors = <<>> THEN EmptyDict
  ELSE merge_styles(ElementStyleCascade(SubSeq(ancestors, 1, Len(ancestors) - 1)),
                    IF ancestors[Len(ancestors)] \in DOMAIN computed_style
                    THEN computed_style[ancestors[Len(ancestors)]]
                    ELSE EmptyDict)

\* C1: the cascaded style of a text node has exactly the keys its ancestors'
\* styles set, and for each key the value of the nearest ancestor setting
\* it; elements that are not ancestors of the text node have no part in it,
\* and the labels are those of the ancestors' element styles merged from
\* the root down.
C1_NearestAncestorWins ==
  \A t \in DOMAIN cascaded :
    /\ DOMAIN cascaded[t] = UNION {DOMAIN StyleOf(a) : a \in AncSet(t)}
    /\ \A k \in DOMAIN cascaded[t] :
         /\ Holders(t, k) # {}
         /\ cascaded[t][k] = StyleOf(Nearest(t, k))[k]
    /\ labels_from_style(normalize_tracked_properties(cascaded[t]))
         = labels_from_style(normalize_tracked_properties(
             ElementStyleCascade(Ancestors(nodes, t))))

\* A bold element with a text child and a child element whose inline
\* font-weight:400 overrides bold for the text inside that child only.
C1_Witness ==
  /\ pc = "done"
  /\ \E t1, t2 \in DOMAIN cascaded :
       /\ nodes[nodes[t2].parent].parent = nodes[t1].parent
       /\ FontWeight \in DOMAIN cascaded[t1]
       /\ FontWeight \in DOMAIN cascaded[t2]
       /\ cascaded[t1][FontWeight] = <<"bold">>
       /\ cascaded[t2][FontWeight] = <<"400">>

\* C2: the computed style of an element has the keys of its selector-derived,
\* inline and tag-implied styles, and on each key the tag-implied value if
\* there is one, else the inline value if there is one, else the
\* selector-derived value.
C2_Precedence ==
  \A e \in DOMAIN computed_style :
    LET sel == element_styles[e]
        inl == InlineStyle(orig[e])
        tag == features_from_tag(orig[e].name)
    IN /\ DOMAIN computed_style[e] = DOMAIN sel \cup DOMAIN inl \cup DOMAIN tag
       /\ \A k \in DOMAIN computed_style[e] :
            computed_style[e][k] =
              IF k \in DOMAIN tag THEN tag[k]
              ELSE IF k \in DOMAIN inl THEN inl[k]
              ELSE sel[k]

\* An element whose inline value differs from the selector-derived one, and
\* an element whose tag-implied value differs from the inline one.
C2_Witness ==
  /\ pc = "done"
  /\ \E e \in DOMAIN computed_style : \E k \in DOMAIN element_styles[e] :
       /\ k \in DOMAIN InlineStyle(orig[e])
       /\ InlineStyle(orig[e])[k] # element_styles[e][k]
  /\ \E e \in DOMAIN computed_style : \E k \in DOMAIN features_from_tag(orig[e].name) :
       /\ k \in DOMAIN InlineStyle(orig[e])
       /\ InlineStyle(orig[e])[k] # features_from_tag(orig[e].name)[k]

\* The labels of a cascaded style as the specification words them, in
\* ascending order: bold, italic, text-align:<value>, underline.
ExpectedLabels(style) ==
  (IF FontWeight \in DOMAIN style /\ style[FontWeight] = <<"bold">>
   THEN << <<"bold">> >> ELSE <<>>)
  \o (IF FontStyle \in DOMAIN style /\ style[FontStyle] = <<"italic">>
      THEN << <<"italic">> >> ELSE <<>>)
  \o (IF TextAlign \in DOMAIN style
      THEN << <<"text-align", ":">> \o style[TextAlign] >> ELSE <<>>)
  \o (IF TextDecoration \in DOMAIN style /\ Contains(style[TextDecoration], "underline")
      THEN << <<"underline">> >> ELSE <<>>)

\* s without its whitespace.
NonSpace(s) == LET Keep(c) == ~IsSpace(c) IN SelectSeq(s, Keep)

\* The text nodes that must yield an entry, in document order: those with a
\* character that is not whitespace and a label in their cascaded style.
Labelled ==
  LET Yields(t) ==
        /\ nodes[t].kind = "text"
        /\ NonSpace(nodes[t].data) # <<>>
        /\ t \in DOMAIN cascaded
        /\ ExpectedLabels(cascaded[t]) # <<>>
  IN SelectSeq([n \in 1..Len(nodes) |-> n], Yields)

\* text is the words of data separated by single spaces.
IsNormalizedTextOf(text, data) ==
  /\ NonSpace(text) = NonSpace(data)
  /\ Len(text) = 2 * Len(NonSpace(data)) - 1
  /\ \A m \in 1..Len(text) : (text[m] = " ") <=> (m % 2 = 0)

\* C3: when the call returns, the entries are, in document order, one for
\* each text node that has a non-whitespace character and a non-empty label
\* set, and none for any other; each carries the normalized text of its
\* node, the name of the parent element and the identifiers of the call.
C3_OneEntryPerLabelledText ==
  pc = "done" =>
    /\ Len(formatted_entries) = Len(Labelled)
    /\ \A j \in 1..Len(formatted_entries) :
         j <= Len(Labelled) =>
           /\ formatted_entries[j].book = book_number
           /\ formatted_entries[j].chapter = chapter_index
           /\ formatted_entries[j].element = nodes[nodes[Labelled[j]].parent].name
           /\ IsNormalizedTextOf(formatted_entries[j].text, nodes[Labelled[j]].data)

\* A call that returned an entry and skipped a whitespace-only text node
\* whose ancestors carry a label.
C3_Witness ==
  /\ pc = "done"
  /\ formatted_entries # <<>>
  /\ \E t \in TextIdx :
       /\ NonSpace(nodes[t].data) = <<>>
       /\ nodes[t].data # <<>>
       /\ labels_from_style(normalize_tracked_properties(
            Cascade(nodes, element_styles, EmptyDict, Ancestors(nodes, t)))) # <<>>

\* C4: the format of each entry is the labels of the cascaded style of its
\* text node (bold iff font-weight is bold, italic iff font-style is italic,
\* underline iff text-decoration contains underline, text-align:<value> iff
\* text-align is present) in ascending order, joined with ", ".
C4_LabelsSortedAndJoined ==
  pc = "done" =>
    \A j \in 1..Len(formatted_entries) :
      j <= Len(Labelled) =>
        formatted_entries[j].format =
          Join(ExpectedLabels(cascaded[Labelled[j]]), <<",", " ">>)

\* An entry labelled "bold, italic", and one with both an alignment and an
\* underline label.
C4_Witness ==
  /\ pc = "done"
  /\ \E j \in 1..Len(formatted_entries) :
       \/ formatted_entries[j].format = <<"bold", ",", " ", "italic">>
       \/ /\ Contains(formatted_entries[j].format, "underline")
          /\ Contains(formatted_entries[j].format, "text-align")
  /\ book_number = 3

\* The style the specification has the emitter write for an element: its
\* tracked properties in normalized form, and the inline properties outside
\* the tracked four as they are.
ExpectedFinalStyle(e) ==
  merge_styles(
    [k \in DOMAIN InlineStyle(orig[e]) \ INTERESTING_PROPERTIES |-> InlineStyle(orig[e])[k]],
    normalize_tracked_properties(computed_style[e]))

\* C5: when the call returns, the style attribute of each element with a
\* non-empty computed style holds only its tracked properties in normalized
\* form and its other inline properties unchanged, sorted by key, each
\* rendered key:value; .
C5_OnlyNormalizedAndPassedThrough ==
  pc = "done" =>
    \A e \in DOMAIN computed_style :
      (DOMAIN computed_style[e] # {} /\ "style" \in DOMAIN nodes[e].attrs) =>
        /\ parse_inline_style(nodes[e].attrs["style"]) = ExpectedFinalStyle(e)
        /\ nodes[e].attrs["style"] = FormatStyle(ExpectedFinalStyle(e))

\* C6: when the call returns, no element has a class attribute, and every
\* attribute other than class and style is as it was.
C6_ClassRemovedOthersKept ==
  pc = "done" =>
    \A e \in TagIdx :
      /\ "class" \notin DOMAIN nodes[e].attrs
      /\ DOMAIN nodes[e].attrs \ {"style"} = DOMAIN orig[e].attrs \ {"class", "style"}
      /\ \A a \in DOMAIN nodes[e].attrs \ {"style"} : nodes[e].attrs[a] = orig[e].attrs[a]

\* An element with a class and an empty computed style, and an element with
\* a class, an id and a non-empty computed style.
C6_Witness ==
  /\ pc = "done"
  /\ \E e \in DOMAIN computed_style :
       "class" \in DOMAIN orig[e].attrs /\ DOMAIN computed_style[e] = {}
  /\ \E e \in DOMAIN computed_style :
       /\ {"class", "id"} \subseteq DOMAIN orig[e].attrs
       /\ DOMAIN computed_style[e] # {}

\* C7: when the call returns, no element with an empty computed style has a
\* style attribute.
C7_EmptyStyleAttributeRemoved ==
  pc = "done" =>
    \A e \in DOMAIN computed_style :
      DOMAIN computed_style[e] = {} => "style" \notin DOMAIN nodes[e].attrs

\* C8: when a second call on the output of the first returns, every element
\* has the style attribute the first call left it with, or none if it left
\* none, and no element has a class attribute.
C8_SecondCallChangesNothing ==
  (run = 2 /\ pc = "done") =>
    \A e \in TagIdx :
      /\ "class" \notin DOMAIN nodes[e].attrs
      /\ ("style" \in DOMAIN nodes[e].attrs) <=> ("style" \in DOMAIN orig[e].attrs)
      /\ "style" \in DOMAIN nodes[e].attrs =>
           nodes[e].attrs["style"] = orig[e].attrs["style"]

\* A second call in which a selector still matches an element whose style
\* attribute the first call wrote, with an inline value that does not
\* normalize.
C8_Witness ==
  /\ run = 2
  /\ pc = "done"
  /\ \E e \in DOMAIN computed_style :
       /\ DOMAIN element_styles[e] # {}
       /\ "style" \in DOMAIN nodes[e].attrs
       /\ FontWeight \in DOMAIN computed_style[e]
       /\ computed_style[e][FontWeight] = <<"400">>

\* C9: the nodes of the document, their kinds, names, parents, order and the
\* strings of the text nodes are at every step what they were when the call
\* began.
C9_TreeUnchanged ==
  /\ Len(nodes) = Len(orig)
  /\ \A n \in 1..Len(nodes) :
       /\ nodes[n].kind = orig[n].kind
       /\ nodes[n].parent = orig[n].parent
       /\ nodes[n].name = orig[n].name
       /\ nodes[n].data = orig[n].data

\* A call that returned having changed attributes of an element that
\* carries tag-implied style.
C9_Witness ==
  /\ pc = "done"
  /\ \E e \in TagIdx :
       /\ nodes[e].attrs # orig[e].attrs
       /\ DOMAIN features_from_tag(nodes[e].name) # {}

\* No two groups of the list have equal properties.
NoEqualProps(groups) ==
  \A a, b \in 1..Len(groups) : a # b => groups[a].properties # groups[b].properties

\* C10: no two groups returned by parse_css_sources (for the base styles or
\* for the inline blocks of a chapter) and no two groups of the summary that
\* collapse_style_groups returns have equal properties.
C10_NoTwoGroupsWithEqualProps ==
  /\ NoEqualProps(base_style_groups)
  /\ NoEqualProps(inline_groups)
  /\ NoEqualProps(css_summary.groups)

\* A book in which two rules with different selectors and equal properties
\* were grouped by the parser, and in which the groups collected over the
\* chapters held equal properties before the collapse.
C10_Witness ==
  /\ css_pc = "done"
  /\ ~NoEqualProps(summary_style_groups)
  /\ \E g \in 1..Len(base_style_groups) : Len(base_style_groups[g].selectors) >= 2
  /\ Len(css_summary.groups) >= 2

\* The selectors that the groups of a list attach to a PropertyMap.
SelectorsFor(groups, properties) ==
  UNION {Range(groups[g].selectors) :
           g \in {h \in 1..Len(groups) : groups[h].properties = properties}}

PropertyMapsOf(groups) == {groups[g].properties : g \in 1..Len(groups)}

\* C11: the groups collapse_style_groups returns for the summary hold the
\* PropertyMaps of the groups it was given, each exactly once, and the
\* selectors of each returned group are the union of the selectors of the
\* given groups with that PropertyMap.
C11_CollapseUnionsSelectors ==
  css_pc = "done" =>
    /\ PropertyMapsOf(css_summary.groups) = PropertyMapsOf(summary_style_groups)
    /\ Len(css_summary.groups) = Cardinality(PropertyMapsOf(summary_style_groups))
    /\ \A g \in 1..Len(css_summary.groups) :
         Range(css_summary.groups[g].selectors) =
           SelectorsFor(summary_style_groups, css_summary.groups[g].properties)

\* A summary in which a group is the union of two given groups of which the
\* later has fewer selectors than the union, next to a group with another
\* PropertyMap.
C11_Witness ==
  /\ css_pc = "done"
  /\ Len(css_summary.groups) >= 2
  /\ \E a, b \in 1..Len(summary_style_groups) :
       /\ a < b
       /\ summary_style_groups[a].properties = summary_style_groups[b].properties
       /\ ~(Range(summary_style_groups[a].selectors)
              \subseteq Range(summary_style_groups[b].selectors))

\* The groups of a list are in ascending order of their sorted (key, value)
\* tuples.
GroupsAscending(groups) ==
  \A a, b \in 1..Len(groups) :
    a < b => ItemsLess(PropsItems(groups[a].properties), PropsItems(groups[b].properties))

\* C12: the groups collapse_style_groups returns for the summary are in
\* ascending order of their sorted (key, value) tuples.
C12_CollapsedGroupsSorted ==
  css_pc = "done" => GroupsAscending(css_summary.groups)

\* C13: the groups parse_css_sources returns, for the base styles and for
\* the inline blocks of a chapter, are in ascending order of their sorted
\* (key, value) tuples, whatever the order the rules were met in.
C13_ParsedGroupsSorted ==
  /\ GroupsAscending(base_style_groups)
  /\ GroupsAscending(inline_groups)

\* The base groups of a book whose rules were met in another order than the
\* ascending one.
C13_Witness ==
  /\ css_pc = "chapters"
  /\ Len(base_style_groups) >= 3
  /\ Len(grouped_styles) = Len(base_style_groups)
  /\ \E g \in 1..Len(grouped_styles) :
       grouped_styles[g].key # base_style_groups[g].properties

\* The sources of the base styles in the order parse_css_sources meets them:
\* the files, then the inline blocks of the first HTML file.
BaseSources == IF chapters = <<>> THEN <<>> ELSE css_files \o chapters[1]

\* A write is a declaration <<source, rule, declaration>> of a style rule of a
\* source that was merged, with a tracked name and a value that normalizes
\* to an entry; it writes that entry for every selector of its rule.
WriteDecl(w) == BaseSources[w[1]].sheet[w[2]].style[w[3]]

Writes ==
  {w \in UNION {UNION {{<<a, r, d>> : d \in 1..Len(BaseSources[a].sheet[r].style)} :
                         r \in 1..Len(BaseSources[a].sheet)} :
                  a \in {b \in 1..Len(BaseSources) : SourceMerged(BaseSources[b])}} :
     /\ BaseSources[w[1]].sheet[w[2]].type = "style"
     /\ Lower(WriteDecl(w).name) \in INTERESTING_PROPERTIES
     /\ DOMAIN _normalize_property(Lower(WriteDecl(w).name), WriteDecl(w).value) # {}}

WriteKey(w) == Lower(WriteDecl(w).name)
WriteValue(w) == _normalize_property(WriteKey(w), WriteDecl(w).value)[WriteKey(w)]

WriteTargets(w) ==
  {Strip(sel) : sel \in Range(BaseSources[w[1]].sheet[w[2]].selectorList)} \ {<<>>}

\* The encounter order of two writes.
WriteBefore(v, w) ==
  \/ v[1] < w[1]
  \/ v[1] = w[1] /\ v[2] < w[2]
  \/ v[1] = w[1] /\ v[2] = w[2] /\ v[3] < w[3]

WritesTo(text, k) == {w \in Writes : text \in WriteTargets(w) /\ WriteKey(w) = k}

LastWrite(text, k) ==
  CHOOSE w \in WritesTo(text, k) : \A v \in WritesTo(text, k) \ {w} : WriteBefore(v, w)

\* C14: the selector map parse_css_sources returns for the base styles holds
\* the selectors some write targets, and for each of them the keys written
\* for it, each with the value of the last write in encounter order (files
\* before inline blocks, rules in source order, declarations left to right).
C14_LastWriteWinsPerKey ==
  css_pc = "chapters" =>
    /\ {base_selector_styles[e].key : e \in 1..Len(base_selector_styles)}
         = UNION {WriteTargets(w) : w \in Writes}
    /\ \A e \in 1..Len(base_selector_styles) :
         LET text == base_selector_styles[e].key
             style == base_selector_styles[e].style
         IN /\ DOMAIN style = {k \in INTERESTING_PROPERTIES : WritesTo(text, k) # {}}
            /\ \A k \in DOMAIN style : style[k] = WriteValue(LastWrite(text, k))

\* A selector for which a file and an inline block write different values
\* of one key, and for which one rule writes a key twice with different
\* values, while another key written earlier is retained.
C14_Witness ==
  /\ css_pc = "chapters"
  /\ \E v, w \in Writes : \E text \in WriteTargets(v) \cap WriteTargets(w) :
       /\ v[1] <= Len(css_files)
       /\ w[1] > Len(css_files)
       /\ WriteKey(v) = WriteKey(w)
       /\ WriteValue(v) # WriteValue(w)
       /\ \E u \in Writes :
            /\ u[1] = v[1]
            /\ text \in WriteTargets(u)
            /\ WriteKey(u) # WriteKey(v)
            /\ WritesTo(text, WriteKey(u)) = {u}
  /\ \E v, w \in Writes :
       /\ v[1] = w[1] /\ v[2] = w[2] /\ v[3] < w[3]
       /\ WriteKey(v) = WriteKey(w)
       /\ WriteValue(v) # WriteValue(w)

\* The sources of a list that cssutils parses.
Parsing(sources) == LET Parses(src) == src.parses IN SelectSeq(sources, Parses)

FailedSources == {a \in 1..Len(BaseSources) : ~BaseSources[a].parses}

\* C15: when parse_css_sources returns the base styles, the selector map and
\* the groups are those of the sources that parse, taken alone, and a
\* warning was logged for each source that does not parse.
C15_FailedSourceSkipped ==
  (css_pc = "chapters" /\ css_pos = 1) =>
    /\ base_selector_styles =
         parse_css_sources(Parsing(css_files), Parsing(chapters[1])).selector_map
    /\ base_style_groups =
         parse_css_sources(Parsing(css_files), Parsing(chapters[1])).groups
    /\ log_warnings >= Cardinality(FailedSources)

\* parse_css_sources returned with the rules of a source met before and of a
\* source met after one that does not parse.
C15_Witness ==
  /\ css_pc = "chapters"
  /\ css_pos = 1
  /\ \E a, b, c \in 1..Len(BaseSources) :
       /\ a < b /\ b < c
       /\ b \in FailedSources
       /\ SourceMerged(BaseSources[a])
       /\ SourceMerged(BaseSources[c])
       /\ \E e \in 1..Len(base_selector_styles) :
            base_selector_styles[e].key \in
              {Strip(sel) : sel \in Range(BaseSources[a].sheet[1].selectorList)}
       /\ \E e \in 1..Len(base_selector_styles) :
            /\ base_selector_styles[e].key \in
                 {Strip(sel) : sel \in Range(BaseSources[c].sheet[1].selectorList)}
            /\ base_selector_styles[e].key \notin
                 {Strip(sel) : sel \in Range(BaseSources[a].sheet[1].selectorList)}

\* The selectors of selector_styles that the matching facility accepts and
\* that match element e of the document the call was given.
Applied(e) ==
  {a \in 1..Len(selector_styles) :
     /\ selector_styles[a].key \notin UnsupportedSelectors
     /\ SelectorMatches(selector_styles[a].key, orig[e])}

Rejected == {a \in 1..Len(selector_styles) : selector_styles[a].key \in UnsupportedSelectors}

\* C16: once the selectors have been matched, the selector-derived style of
\* every element is made of the styles of the accepted selectors that match
\* it, the later overriding the earlier, whether or not selector_styles
\* holds a selector the matching facility rejects.
C16_RejectedSelectorSkipped ==
  (run = 1 /\ pc \in {"elements", "texts", "done"}) =>
    \A e \in 1..Len(nodes) :
      /\ DOMAIN element_styles[e] =
           UNION {DOMAIN selector_styles[a].style : a \in Applied(e)}
      /\ \A k \in DOMAIN element_styles[e] :
           \E a \in Applied(e) :
             /\ k \in DOMAIN selector_styles[a].style
             /\ element_styles[e][k] = selector_styles[a].style[k]
             /\ \A b \in Applied(e) : b > a => k \notin DOMAIN selector_styles[b].style

\* A call that returned although a selector was rejected, with an element
\* styled by a selector that comes before the rejected one and an element
\* styled by a selector that comes after it.
C16_Witness ==
  /\ pc = "done"
  /\ \E r \in Rejected :
       /\ \E e \in TagIdx : \E a \in Applied(e) : a < r
       /\ \E e \in TagIdx : \E a \in Applied(e) : a > r

\* C17: when process_book has ended, by returning or by raising, the
\* outputs of every chapter whose processing did not fail were written.
C17_FailureAbortsOnlyItsDocument ==
  css_pc \in {"done", "raised"} =>
    \A c \in 1..Len(chapters) : c \notin pandoc_fails => c \in markdown_written

\* The chapter whose styles were combined last.
LastChapter ==
  IF css_pc = "chapters" THEN css_pos - 1
  ELSE IF css_pc \in {"collapse", "done"} THEN Len(chapters)
  ELSE 0

\* The base selector styles as parse_css_sources returned them.
BaseAsParsed ==
  IF chapters = <<>> THEN <<>>
  ELSE parse_css_sources(css_files, chapters[1]).selector_map

\* C18: from the moment parse_css_sources returned it, the base selector map
\* of the book is what it was then, and the styles applied to a chapter are
\* that map updated with the chapter's own inline styles only.
C18_BaseStylesNeverMutated ==
  (css_pc \in {"chapters", "collapse", "done"}) =>
    /\ base_selector_styles = BaseAsParsed
    /\ LastChapter >= 1 =>
         combined_styles =
           UpdateDict(BaseAsParsed,
                      parse_css_sources(<<>>, chapters[LastChapter]).selector_map)

\* A second chapter without inline styles, given the base map itself, after
\* a first chapter whose inline styles replaced the style of a base selector
\* in the map applied to it.
C18_Witness ==
  /\ css_pc = "done"
  /\ Len(chapters) = 2
  /\ chapters[2] = <<>>
  /\ combined_styles = base_selector_styles
  /\ \E e \in 1..Len(base_selector_styles) :
       UpdateDict(base_selector_styles,
                  parse_css_sources(<<>>, chapters[1]).selector_map)[e].style
         # base_selector_styles[e].style

\* A value in lower case without the white space around it and without a
\* trailing !important.
WithoutImportant(value) ==
  LET v == Strip(Lower(value)) IN
  IF v # <<>> /\ v[Len(v)] = "!important" THEN Strip(SubSeq(v, 1, Len(v) - 1)) ELSE v

\* The numbers among the atoms, and ten times their value.
NumberAtoms == {"300", "400", "450.5", "500", "700"}

Tenths(a) ==
  CASE a = "300" -> 3000 [] a = "400" -> 4000 [] a = "450.5" -> 4505
    [] a = "500" -> 5000 [] a = "700" -> 7000

\* A number greater than 400, or the keyword bold or bolder.
IsBoldWeight(v) ==
  /\ Len(v) = 1
  /\ \/ v[1] \in {"bold", "bolder"}
     \/ v[1] \in NumberAtoms /\ Tenths(v[1]) > 4000

\* C19: for font-weight, _normalize_property returns {font-weight: bold}
\* when the value, in lower case and without a trailing !important, is a
\* number greater than 400 or the keyword bold or bolder, and the empty dict
\* for every other value.
C19_FontWeightBoldAbove400 ==
  (np_name = FontWeight /\ np_pc # "call") =>
    /\ np_pc = "returned"
    /\ np_result = IF IsBoldWeight(WithoutImportant(np_value))
                   THEN [k \in {FontWeight} |-> <<"bold">>]
                   ELSE EmptyDict

\* C20: for text-align, _normalize_property returns for every value
\* {text-align: t}, t the first token of the value in lower case without a
\* trailing !important.
C20_TextAlignFirstToken ==
  (np_name = TextAlign /\ np_pc # "call") =>
    /\ np_pc = "returned"
    /\ SplitWS(WithoutImportant(np_value)) # <<>>
    /\ np_result = [k \in {TextAlign} |-> SplitWS(WithoutImportant(np_value))[1]]

\* C21: _normalize_property returns for every name and every value, the
\* empty one and those of white space or of !important alone included, a
\* dict of at most one entry, and the empty dict for a name outside the
\* tracked four; it never raises.
C21_NormalizeTotal ==
  np_pc # "call" =>
    /\ np_pc = "returned"
    /\ Cardinality(DOMAIN np_result) <= 1
    /\ np_name \notin INTERESTING_PROPERTIES => np_result = EmptyDict

\* No entry of a selector map has an empty style.
NoEmptyStyle(sm) == \A e \in 1..Len(sm) : DOMAIN sm[e].style # {}

\* No group of a list has an empty PropertyMap.
NoEmptyGroup(groups) == \A g \in 1..Len(groups) : DOMAIN groups[g].properties # {}

\* The style rules <<source, rule>> of the merged base sources whose
\* declarations normalize to nothing, and those that normalize to something.
EmptyRules ==
  {x \in UNION {{<<a, r>> : r \in 1..Len(BaseSources[a].sheet)} :
                  a \in {b \in 1..Len(BaseSources) : SourceMerged(BaseSources[b])}} :
     /\ BaseSources[x[1]].sheet[x[2]].type = "style"
     /\ \A w \in Writes : <<w[1], w[2]>> # x}

RuleTargets(x) ==
  {Strip(sel) : sel \in Range(BaseSources[x[1]].sheet[x[2]].selectorList)} \ {<<>>}

\* C22: in every state no selector of a selector map has an empty
\* PropertyMap and no group has one, and a selector that only rules with an
\* empty PropertyMap target is not a key of the base selector map.
C22_EmptyRulesContributeNothing ==
  /\ NoEmptyStyle(selector_map)
  /\ NoEmptyStyle(base_selector_styles)
  /\ NoEmptyStyle(summary_selector_styles)
  /\ NoEmptyStyle(combined_styles)
  /\ NoEmptyStyle(css_summary.selectors)
  /\ \A g \in 1..Len(grouped_styles) : DOMAIN grouped_styles[g].key # {}
  /\ NoEmptyGroup(base_style_groups)
  /\ NoEmptyGroup(inline_groups)
  /\ NoEmptyGroup(summary_style_groups)
  /\ NoEmptyGroup(css_summary.groups)
  /\ css_pc = "chapters" =>
       \A x \in EmptyRules : \A text \in RuleTargets(x) :
         (\E e \in 1..Len(base_selector_styles) : base_selector_styles[e].key = text)
           => \E w \in Writes : text \in WriteTargets(w)

\* The base styles of a book with a rule that normalizes to nothing for a
\* selector no other rule targets, and with such a rule for a selector that
\* another rule gives a style.
C22_Witness ==
  /\ css_pc = "chapters"
  /\ base_selector_styles # <<>>
  /\ \E x \in EmptyRules : \E text \in RuleTargets(x) :
       \A e \in 1..Len(base_selector_styles) : base_selector_styles[e].key # text
  /\ \E x \in EmptyRules : \E text \in RuleTargets(x) :
       \E e \in 1..Len(base_selector_styles) : base_selector_styles[e].key = text

\* C23: once the selectors have been matched, an element has every key of
\* every accepted selector that matches it, and on a key its value differs
\* from that of a matching selector only if a selector later in the
\* iteration order of selector_styles matches it and sets the key too.
C23_LaterSelectorWins ==
  (run = 1 /\ pc \in {"elements", "texts", "done"}) =>
    \A e \in 1..Len(nodes) : \A a \in Applied(e) :
      \A k \in DOMAIN selector_styles[a].style :
        /\ k \in DOMAIN element_styles[e]
        /\ element_styles[e][k] # selector_styles[a].style[k] =>
             \E b \in Applied(e) : b > a /\ k \in DOMAIN selector_styles[b].style

\* An element matched by an id selector and, later in the iteration order,
\* by a class selector that sets another value of the same key: the class
\* selector's value is the element's, and a key only one of them sets is
\* kept.
C23_Witness ==
  /\ pc = "done"
  /\ \E e \in TagIdx : \E a, b \in Applied(e) :
       /\ a < b
       /\ selector_styles[a].key = <<"#x">>
       /\ selector_styles[b].key = <<".title">>
       /\ \E k \in DOMAIN selector_styles[a].style \cap DOMAIN selector_styles[b].style :
            /\ selector_styles[a].style[k] # selector_styles[b].style[k]
            /\ element_styles[e][k] = selector_styles[b].style[k]
       /\ DOMAIN element_styles[e] # DOMAIN selector_styles[a].style

\* The sources of a call in the order parse_css_sources meets them, and the
\* calls that give the selector_styles of the state.
CallSources(c) == c.css_files \o c.inline_css

TheCalls ==
  {c \in Calls :
     parse_css_sources(c.css_files, c.inline_css).selector_map = selector_styles}

\* The places <<source, rule, selector>> where the sources of a call target
\* a selector text in a merged rule, and the first of them.
Seen(c, text) ==
  {x \in UNION {UNION {{<<a, r, j>> :
                          j \in 1..Len(CallSources(c)[a].sheet[r].selectorList)} :
                         r \in 1..Len(CallSources(c)[a].sheet)} :
                  a \in {b \in 1..Len(CallSources(c)) : SourceMerged(CallSources(c)[b])}} :
     /\ CallSources(c)[x[1]].sheet[x[2]].type = "style"
     /\ DOMAIN NormalizedProps(EmptyDict, CallSources(c)[x[1]].sheet[x[2]].style) # {}
     /\ Strip(CallSources(c)[x[1]].sheet[x[2]].selectorList[x[3]]) = text}

FirstSeen(c, text) ==
  CHOOSE x \in Seen(c, text) : \A y \in Seen(c, text) \ {x} : WriteBefore(x, y)

\* The last place where a rule of the call sets key k for a selector text.
LastSetting(c, text, k) ==
  LET S == {x \in Seen(c, text) :
              k \in DOMAIN NormalizedProps(EmptyDict,
                                           CallSources(c)[x[1]].sheet[x[2]].style)}
  IN CHOOSE x \in S : \A y \in S \ {x} : WriteBefore(y, x)

\* C26: the selectors of selector_styles are in the order in which their
\* texts were first met in the sources, and of two accepted selectors that
\* match an element and set the same key, the element has the value of the
\* one first met later (element_styles is final when the call returns).
C26_FirstEncounterFixesPrecedence ==
  (run = 1 /\ pc = "done") =>
    \A c \in TheCalls :
      LET first == [a \in 1..Len(selector_styles) |->
                      FirstSeen(c, selector_styles[a].key)] IN
      /\ \A a, b \in 1..Len(selector_styles) :
           a < b => WriteBefore(first[a], first[b])
      /\ \A e \in 1..Len(nodes) : \A a, b \in Applied(e) :
           \A k \in DOMAIN selector_styles[a].style \cap DOMAIN selector_styles[b].style :
             WriteBefore(first[a], first[b])
               => element_styles[e][k] # selector_styles[a].style[k]
                    \/ selector_styles[a].style[k] = selector_styles[b].style[k]
                    \/ \E d \in Applied(e) :
                         /\ d # a
                         /\ k \in DOMAIN selector_styles[d].style
                         /\ selector_styles[d].style[k] = selector_styles[a].style[k]

\* An element matched by two selectors that set different values of a key,
\* where the value of the selector first met earlier comes from a rule that
\* stands after the rule of the other one, and the element has the value of
\* the selector first met later.
C26_Witness ==
  /\ pc = "done"
  /\ \E c \in TheCalls : \E e \in TagIdx : \E a, b \in Applied(e) :
       \E k \in DOMAIN selector_styles[a].style \cap DOMAIN selector_styles[b].style :
         /\ WriteBefore(FirstSeen(c, selector_styles[a].key),
                        FirstSeen(c, selector_styles[b].key))
         /\ WriteBefore(LastSetting(c, selector_styles[b].key, k),
                        LastSetting(c, selector_styles[a].key, k))
         /\ selector_styles[a].style[k] # selector_styles[b].style[k]
         /\ element_styles[e][k] = selector_styles[b].style[k]

\* C24: when the element pass is over, the cascaded style it kept for an
\* element is the one the walk of the text pass computes over the rewritten
\* tree for the element and its ancestors; the cascaded style of a text node
\* is the one kept for its parent, and the labels of the two are the same.
C24_CascadesAgree ==
  (run = 1 /\ pc \in {"texts", "done"}) =>
    /\ \A e \in DOMAIN tag_cascaded_styles :
         tag_cascaded_styles[e] =
           Cascade(nodes, element_styles, EmptyDict, Append(Ancestors(nodes, e), e))
    /\ \A t \in DOMAIN cascaded :
         /\ nodes[t].parent \in DOMAIN tag_cascaded_styles
         /\ cascaded[t] = tag_cascaded_styles[nodes[t].parent]
         /\ labels_from_style(normalize_tracked_properties(cascaded[t]))
              = labels_from_style(
                  normalize_tracked_properties(tag_cascaded_styles[nodes[t].parent]))

\* A text node with labels under an element inside another element, where
\* the rewriting changed the style attribute of one of the two and the
\* normalization changed a value of its computed style.
C24_Witness ==
  /\ pc = "done"
  /\ \E t \in DOMAIN cascaded :
       /\ labels_from_style(normalize_tracked_properties(cascaded[t])) # <<>>
       /\ nodes[t].parent # 0
       /\ nodes[nodes[t].parent].parent # 0
       /\ \E e \in {nodes[t].parent, nodes[nodes[t].parent].parent} :
            /\ InlineStyle(nodes[e]) # InlineStyle(orig[e])
            /\ \E k \in DOMAIN computed_style[e] :
                 computed_style[e][k] # tag_cascaded_styles[e][k]

\* C25: the styles applied to a chapter with inline style blocks hold, for
\* each selector of both the base map and the chapter's inline map, the
\* base PropertyMap overridden key by key with the inline one.
C25_InlineMergedPerKey ==
  (LastChapter >= 1 /\ chapters[LastChapter] # <<>>) =>
    LET inline_selector_styles ==
          parse_css_sources(<<>>, chapters[LastChapter]).selector_map
    IN \A b \in 1..Len(base_selector_styles) :
         \A n \in 1..Len(inline_selector_styles) :
           base_selector_styles[b].key = inline_selector_styles[n].key =>
             \E c \in 1..Len(combined_styles) :
               /\ combined_styles[c].key = base_selector_styles[b].key
               /\ combined_styles[c].style =
                    merge_styles(base_selector_styles[b].style,
                                 inline_selector_styles[n].style)

\* The sources of a list as they would be if the diagnostic printing of
\* none of them raised.
Printed(sources) == [a \in DOMAIN sources |-> [sources[a] EXCEPT !.prints = TRUE]]

\* C27: when parse_css_sources returns the base styles, the rules of every
\* source that parses are merged, whether its diagnostic printing raised or
\* not: the selector map and the groups are those the sources give when the
\* printing of none of them raises.
C27_ParsedSourceNeverDropped ==
  (css_pc = "chapters" /\ css_pos = 1) =>
    /\ base_selector_styles =
         parse_css_sources(Printed(css_files), Printed(chapters[1])).selector_map
    /\ base_style_groups =
         parse_css_sources(Printed(css_files), Printed(chapters[1])).groups

\* C28: when the element pass is over, an element whose computed style is
\* not empty has a style attribute that is not empty, the keys of that
\* attribute are the keys of the computed style, and a tracked key whose
\* value does not normalize has the value of the computed style.
C28_RewrittenStyleKeepsEveryKey ==
  (run = 1 /\ pc \in {"texts", "done"}) =>
    \A e \in DOMAIN computed_style :
      DOMAIN computed_style[e] # {} =>
        /\ "style" \in DOMAIN nodes[e].attrs
        /\ nodes[e].attrs["style"] # <<>>
        /\ DOMAIN InlineStyle(nodes[e]) = DOMAIN computed_style[e]
        /\ \A k \in DOMAIN computed_style[e] \cap INTERESTING_PROPERTIES :
             k \notin DOMAIN normalize_tracked_properties(computed_style[e]) =>
               InlineStyle(nodes[e])[k] = computed_style[e][k]

\* An element whose computed style has tracked keys only and none that
\* normalizes: the attribute written back is the computed style.
C28_Witness ==
  /\ pc = "done"
  /\ \E e \in DOMAIN computed_style :
       /\ DOMAIN computed_style[e] # {}
       /\ DOMAIN computed_style[e] \subseteq INTERESTING_PROPERTIES
       /\ normalize_tracked_properties(computed_style[e]) = EmptyDict
       /\ "style" \in DOMAIN nodes[e].attrs
       /\ nodes[e].attrs["style"] = FormatStyle(computed_style[e])

\* The value of the font-weight declaration of the style attribute, trimmed
\* and in lower case, and whether the text of an element is labelled bold.
InlineWeight == Lower(Strip(SubSeq(orig[1].attrs["style"], 3, Len(orig[1].attrs["style"]))))

LabelledBold(name) ==
  \E j \in 1..Len(formatted_entries) :
    /\ formatted_entries[j].element = name
    /\ formatted_entries[j].format = <<"bold">>

\* C29: the text of an element with an inline font-weight is labelled bold
\* exactly when the trimmed lower-case value is bold, 600, 700, 800 or 900;
\* with the value 500 or bolder the text is not labelled bold and the value
\* is written back as it is, while the text of the element that has the
\* same declaration from the stylesheet is labelled bold.
C29_InlineBoldValues ==
  (run = 1 /\ pc = "done") =>
    /\ LabelledBold("span") <=>
         InlineWeight \in {<<"bold">>, <<"600">>, <<"700">>, <<"800">>, <<"900">>}
    /\ InlineWeight \in {<<"500">>, <<"bolder">>} =>
         /\ ~LabelledBold("span")
         /\ nodes[1].attrs["style"] = <<"font-weight", ":">> \o InlineWeight \o <<";">>
         /\ LabelledBold("p")

\* The declaration font-weight: 500 in a style attribute and in the
\* stylesheet: the text of the paragraph is labelled, that of the span is not.
C29_Witness ==
  /\ pc = "done"
  /\ nodes[1].name = "span"
  /\ InlineWeight = <<"500">>
  /\ LabelledBold("p")
  /\ ~LabelledBold("span")
  /\ nodes[1].attrs["style"] = <<"font-weight", ":", "500", ";">>

\* A well-formed JSON array of the items: the opening bracket, each item
\* after a line break, a comma before the line break of every item but the
\* first, and the closing bracket on a line of its own.
JsonArray(items) ==
  LET n == Len(items)
      body == [j \in 1..(IF n = 0 THEN 0 ELSE 2 * n + 1) |->
                 IF j = 2 * n + 1 THEN Lit("\n")
                 ELSE IF j % 2 = 0 THEN Dumped(items[j \div 2])
                 ELSE IF j = 1 THEN Lit("\n") ELSE Lit(",\n")]
  IN <<Lit("[")>> \o body \o <<Lit("]\n")>>

Commas(text) == Cardinality({j \in 1..Len(text) : text[j] = Lit(",\n")})

\* C30: every write made before __enter__ or after __exit__ raised and wrote
\* nothing, no other write raised, and after __exit__ the file is the JSON
\* array of the items written in between, in their order, with one comma
\* less than items (none for an empty array), whether the body of the with
\* statement returned or raised.
C30_WriterProtocol ==
  /\ w_raised = w_outside
  /\ w_count = Len(w_items)
  /\ w_phase = "new" => w_text = <<>>
  /\ w_phase = "exited" =>
       /\ w_text = JsonArray(w_items)
       /\ Commas(w_text) = IF Len(w_items) = 0 THEN 0 ELSE Len(w_items) - 1
       /\ ~w_file

\* The writer left because of an exception after two or more items, with a
\* write refused outside of the with statement.
C30_Witness ==
  /\ w_phase = "exited"
  /\ w_exc
  /\ Len(w_items) >= 2
  /\ w_items[1] # w_items[2]
  /\ w_raised >= 1

=============================================================================
